---- MODULE Spec2Model ----
(***************************************************************************)
(* Model of the Reddit extraction engine of ruijzhan/colly                 *)
(* (package extractor: ExtractRedditPost, ExtractSubredditPosts and their  *)
(* helpers) and of its standalone crawler (cmd/reddit).                    *)
(*                                                                         *)
(* Go strings are modelled as sequences of one-character strings, so that  *)
(* trimming, case folding, prefix/suffix tests and splitting are computed  *)
(* the way the Go standard library computes them.  Inputs never contain    *)
(* '%', '#', '@', '[' or a fragment: URL unescaping is the identity on     *)
(* them.                                                                   *)
(***************************************************************************)
EXTENDS Integers, Sequences, FiniteSets, TLC

VARIABLES
    lst,    \* lst[c]: state of the ExtractSubredditPosts call c
    post,   \* state of the ExtractRedditPost call
    fn,     \* a pure helper under evaluation: its input and its output
    crawler \* state of the standalone crawler (cmd/reddit)

vars == <<lst, post, fn, crawler>>

----------------------------------------------------------------------------
(* package strings                                                         *)

\* unicode.IsSpace, restricted to the characters the inputs use
Ws == {" ", "\t", "\n"}

UpperSeq == <<"A","B","C","D","E","F","G","H","I","J","K","L","M",
              "N","O","P","Q","R","S","T","U","V","W","X","Y","Z">>
LowerSeq == <<"a","b","c","d","e","f","g","h","i","j","k","l","m",
              "n","o","p","q","r","s","t","u","v","w","x","y","z">>
Digits == {"0","1","2","3","4","5","6","7","8","9"}

Range(s) == {s[i] : i \in 1..Len(s)}
Letters == Range(UpperSeq) \cup Range(LowerSeq)

ToLowerCh(ch) ==
    IF \E i \in 1..Len(UpperSeq) : UpperSeq[i] = ch
    THEN LowerSeq[CHOOSE i \in 1..Len(UpperSeq) : UpperSeq[i] = ch]
    ELSE ch

ToLower(s) == [i \in 1..Len(s) |-> ToLowerCh(s[i])]

RECURSIVE TrimLeftSet(_, _)
TrimLeftSet(s, cut) ==
    IF s # <<>> /\ Head(s) \in cut THEN TrimLeftSet(Tail(s), cut) ELSE s

RECURSIVE TrimRightSet(_, _)
TrimRightSet(s, cut) ==
    IF s # <<>> /\ s[Len(s)] \in cut
    THEN TrimRightSet(SubSeq(s, 1, Len(s) - 1), cut)
    ELSE s

\* strings.Trim(s, cutset)
Trim(s, cut) == TrimRightSet(TrimLeftSet(s, cut), cut)

\* strings.TrimSpace
TrimSpace(s) == Trim(s, Ws)

HasPrefix(s, p) == Len(s) >= Len(p) /\ SubSeq(s, 1, Len(p)) = p

HasSuffix(s, p) ==
    Len(s) >= Len(p) /\ SubSeq(s, Len(s) - Len(p) + 1, Len(s)) = p

\* strings.Index, 0 when sub does not occur (Go: -1), else 1-based position
RECURSIVE IndexFrom(_, _, _)
IndexFrom(s, sub, i) ==
    IF i + Len(sub) - 1 > Len(s) THEN 0
    ELSE IF SubSeq(s, i, i + Len(sub) - 1) = sub THEN i
    ELSE IndexFrom(s, sub, i + 1)

Index(s, sub) == IndexFrom(s, sub, 1)

Contains(s, sub) == Index(s, sub) # 0

\* strings.Split(s, sep) for a non-empty separator
RECURSIVE Split(_, _)
Split(s, sep) ==
    LET i == Index(s, sep) IN
    IF i = 0 THEN <<s>>
    ELSE <<SubSeq(s, 1, i - 1)>> \o Split(SubSeq(s, i + Len(sep), Len(s)), sep)

\* strings.ReplaceAll(s, old, new) for a non-empty old
RECURSIVE ReplaceAll(_, _, _)
ReplaceAll(s, old, new) ==
    LET i == Index(s, old) IN
    IF i = 0 THEN s
    ELSE SubSeq(s, 1, i - 1) \o new
         \o ReplaceAll(SubSeq(s, i + Len(old), Len(s)), old, new)

\* strings.EqualFold on the ASCII inputs
EqualFold(s, t) == ToLower(s) = ToLower(t)

\* fmt.Sprintf("%d", n)
DigitSeq == <<"0","1","2","3","4","5","6","7","8","9">>
RECURSIVE NatToStr(_)
NatToStr(n) ==
    IF n < 10 THEN <<DigitSeq[n + 1]>>
    ELSE NatToStr(n \div 10) \o <<DigitSeq[(n % 10) + 1]>>
IntToStr(n) == IF n < 0 THEN <<"-">> \o NatToStr(0 - n) ELSE NatToStr(n)

----------------------------------------------------------------------------
(* package net/url, as used through url.ParseRequestURI and url.Parse      *)

BadURL == [ok |-> FALSE, Scheme |-> <<>>, Host |-> <<>>, Path |-> <<>>]

\* url.getScheme: [ok, scheme, rest]
RECURSIVE getSchemeAt(_, _)
getSchemeAt(raw, i) ==
    IF i > Len(raw) THEN [ok |-> TRUE, scheme |-> <<>>, rest |-> raw]
    ELSE IF raw[i] \in Letters THEN getSchemeAt(raw, i + 1)
    ELSE IF raw[i] \in Digits \cup {"+", "-", "."}
         THEN IF i = 1 THEN [ok |-> TRUE, scheme |-> <<>>, rest |-> raw]
              ELSE getSchemeAt(raw, i + 1)
    ELSE IF raw[i] = ":"
         THEN IF i = 1 THEN [ok |-> FALSE, scheme |-> <<>>, rest |-> <<>>]
              ELSE [ok |-> TRUE, scheme |-> SubSeq(raw, 1, i - 1),
                    rest |-> SubSeq(raw, i + 1, Len(raw))]
    ELSE [ok |-> TRUE, scheme |-> <<>>, rest |-> raw]

getScheme(raw) == getSchemeAt(raw, 1)

\* strings.LastIndex(s, ":"), 0 when absent
LastColon(s) ==
    IF \E i \in 1..Len(s) : s[i] = ":"
    THEN CHOOSE i \in 1..Len(s) : s[i] = ":" /\ \A j \in (i + 1)..Len(s) : s[j] # ":"
    ELSE 0

\* url.parseAuthority / parseHost without userinfo and IP literals:
\* an optional port must be digits, a host holds no space
validHost(h) ==
    /\ LET i == LastColon(h) IN
          i = 0 \/ \A j \in (i + 1)..Len(h) : h[j] \in Digits
    /\ \A j \in 1..Len(h) : h[j] \notin Ws

\* url.parse(rawURL, viaRequest)
urlParse(raw, viaRequest) ==
    IF \E i \in 1..Len(raw) : raw[i] \in {"\t", "\n"} THEN BadURL
    ELSE IF raw = <<>> /\ viaRequest THEN BadURL
    ELSE IF raw = <<"*">> THEN [BadURL EXCEPT !.ok = TRUE, !.Path = <<"*">>]
    ELSE
    LET sch == getScheme(raw) IN
    IF ~sch.ok THEN BadURL
    ELSE
    LET scheme == ToLower(sch.scheme)
        q      == Index(sch.rest, <<"?">>)
        rest   == IF q = 0 THEN sch.rest ELSE SubSeq(sch.rest, 1, q - 1)
    IN
    IF ~HasPrefix(rest, <<"/">>) /\ scheme # <<>>
        THEN [ok |-> TRUE, Scheme |-> scheme, Host |-> <<>>, Path |-> <<>>]
    ELSE IF ~HasPrefix(rest, <<"/">>) /\ viaRequest THEN BadURL
    ELSE IF ~HasPrefix(rest, <<"/">>)
            /\ Contains(Split(rest, <<"/">>)[1], <<":">>) THEN BadURL
    ELSE IF (scheme # <<>> \/ (~viaRequest /\ ~HasPrefix(rest, <<"/","/","/">>)))
            /\ HasPrefix(rest, <<"/","/">>)
        THEN LET auth == SubSeq(rest, 3, Len(rest))
                 i    == Index(auth, <<"/">>)
                 host == IF i = 0 THEN auth ELSE SubSeq(auth, 1, i - 1)
                 path == IF i = 0 THEN <<>> ELSE SubSeq(auth, i, Len(auth))
             IN IF validHost(host)
                THEN [ok |-> TRUE, Scheme |-> scheme, Host |-> host, Path |-> path]
                ELSE BadURL
    ELSE [ok |-> TRUE, Scheme |-> scheme, Host |-> <<>>, Path |-> rest]

ParseRequestURI(raw) == urlParse(raw, TRUE)
Parse(raw) == urlParse(raw, FALSE)

----------------------------------------------------------------------------
(* string literals of the source                                           *)

s_hot == <<"h","o","t">>
s_new == <<"n","e","w">>
s_top == <<"t","o","p">>
s_rising == <<"r","i","s","i","n","g">>
s_day == <<"d","a","y">>
s_week == <<"w","e","e","k">>
s_month == <<"m","o","n","t","h">>
s_year == <<"y","e","a","r">>
s_all == <<"a","l","l">>
s_r == <<"r">>
s_t3 == <<"t","3">>
s_t1 == <<"t","1">>
s_slash == <<"/">>
s_dotdot == <<".",".">>
s_http == <<"h","t","t","p",":","/","/">>
s_https == <<"h","t","t","p","s",":","/","/">>
s_rprefix == <<"/","r","/">>
s_canonical == <<"h","t","t","p","s",":","/","/","w","w","w",".","r","e","d","d","i","t",".","c","o","m">>
s_deleted == <<"[","d","e","l","e","t","e","d","]">>
s_removed == <<"[","r","e","m","o","v","e","d","]">>
s_valid == <<"v","a","l","i","d">>
s_Image == <<"I","m","a","g","e">>
s_image == <<"i","m","a","g","e">>
s_amp == <<"&","a","m","p",";">>
s_and == <<"&">>
s_preview_host == <<"p","r","e","v","i","e","w",".","r","e","d","d",".","i","t">>
s_i_host == <<"i",".","r","e","d","d",".","i","t">>
s_v_host == <<"v",".","r","e","d","d",".","i","t">>
s_reddit_com == <<"r","e","d","d","i","t",".","c","o","m">>
s_redd_it == <<"r","e","d","d",".","i","t">>
s_json == <<".","j","s","o","n">>

----------------------------------------------------------------------------
(* subreddit listing: constants, errors, helpers                           *)

defaultSubredditSort == s_hot
defaultSubredditLimit == 20
maxSubredditLimit == 100

StatusOK == 200
StatusForbidden == 403
StatusNotFound == 404
StatusGone == 410

\* Go error values: nil, a ValidationError{Message}, or a plain error
NilErr == [kind |-> "nil", msg |-> ""]
ValidationError(m) == [kind |-> "ValidationError", msg |-> m]
PlainErr(m) == [kind |-> "error", msg |-> m]

normalizeSubredditSort(sort) ==
    LET s == ToLower(TrimSpace(sort)) IN
    IF s \in {<<>>, s_hot, s_new, s_top, s_rising} THEN s ELSE <<>>

isValidTimeRange(timeRange) ==
    ToLower(TrimSpace(timeRange)) \in {s_day, s_week, s_month, s_year, s_all}

\* variant: the first "r" segment decides, whatever follows it
firstMarker_FirstR(pathParts) ==
    LET isR(i) == pathParts[i] = s_r IN
    IF \E i \in 1..(Len(pathParts) - 1) : isR(i)
    THEN LET i == CHOOSE i \in 1..(Len(pathParts) - 1) :
                     isR(i) /\ \A j \in 1..(i - 1) : ~isR(j)
         IN IF pathParts[i + 1] # <<>> THEN i ELSE 0
    ELSE 0

\* variant: the last marker followed by a non-empty segment wins
firstMarker_Last(pathParts) ==
    LET hit(i) == pathParts[i] = s_r /\ pathParts[i + 1] # <<>> IN
    IF \E i \in 1..(Len(pathParts) - 1) : hit(i)
    THEN CHOOSE i \in 1..(Len(pathParts) - 1) :
            hit(i) /\ \A j \in (i + 1)..(Len(pathParts) - 1) : ~hit(j)
    ELSE 0

\* the first i with pathParts[i] = "r" and a non-empty pathParts[i+1]; 0 if none
firstMarker(pathParts) ==
    LET hit(i) == pathParts[i] = s_r /\ pathParts[i + 1] # <<>> IN
    IF \E i \in 1..(Len(pathParts) - 1) : hit(i)
    THEN CHOOSE i \in 1..(Len(pathParts) - 1) :
            hit(i) /\ \A j \in 1..(i - 1) : ~hit(j)
    ELSE 0

\* parseSubredditURL: [err, name]; err = "" stands for a nil error
parseSubredditURL(rawURL) ==
    IF TrimSpace(rawURL) = <<>> THEN [err |-> "url is required", name |-> <<>>]
    ELSE
    LET parsed == ParseRequestURI(rawURL) IN
    IF ~parsed.ok THEN [err |-> "invalid url", name |-> <<>>]
    ELSE IF parsed.Scheme = <<>> \/ parsed.Host = <<>>
        THEN [err |-> "invalid url", name |-> <<>>]
    ELSE
    LET pathParts == Split(Trim(parsed.Path, {"/"}), s_slash)
        i == firstMarker(pathParts)
    IN IF i # 0 THEN [err |-> "", name |-> pathParts[i + 1]]
       ELSE [err |-> "invalid subreddit url", name |-> <<>>]

ValidateSubredditURL(rawURL) ==
    LET r == parseSubredditURL(rawURL) IN
    IF r.err # "" THEN ValidationError(r.err) ELSE NilErr

\* variant: the ".." check is missing
buildRedditPostLink_NoTraversalCheck(permalink0) ==
    LET permalink == TrimSpace(permalink0) IN
    IF permalink = <<>> THEN <<>>
    ELSE IF HasPrefix(permalink, s_http) \/ HasPrefix(permalink, s_https)
        THEN permalink
    ELSE IF ~HasPrefix(permalink, s_rprefix) THEN <<>>
    ELSE
    LET parts == Split(Trim(permalink, {"/"}), s_slash) IN
    IF Len(parts) < 3 \/ parts[1] # s_r \/ parts[2] = <<>> THEN <<>>
    ELSE s_canonical \o permalink

buildRedditPostLink(permalink0) ==
    LET permalink == TrimSpace(permalink0) IN
    IF permalink = <<>> THEN <<>>
    ELSE IF HasPrefix(permalink, s_http) \/ HasPrefix(permalink, s_https)
        THEN permalink
    ELSE IF ~HasPrefix(permalink, s_rprefix) THEN <<>>
    ELSE IF Contains(permalink, s_dotdot) THEN <<>>
    ELSE
    LET parts == Split(Trim(permalink, {"/"}), s_slash) IN
    IF Len(parts) < 3 THEN <<>>
    ELSE IF parts[1] # s_r THEN <<>>
    ELSE IF parts[2] = <<>> THEN <<>>
    ELSE s_canonical \o permalink

\* variant: the body text is not looked at
isRemovedPost_TitleOnly(title0, selftext0, removedCategory0) ==
    LET removedCategory == TrimSpace(removedCategory0)
        title == TrimSpace(ToLower(title0))
    IN removedCategory # <<>> \/ title = s_deleted \/ title = s_removed

isRemovedPost(title0, selftext0, removedCategory0) ==
    LET removedCategory == TrimSpace(removedCategory0)
        title == TrimSpace(ToLower(title0))
        selftext == TrimSpace(ToLower(selftext0))
    IN IF removedCategory # <<>> THEN TRUE
       ELSE IF title = s_deleted \/ title = s_removed THEN TRUE
       ELSE IF selftext = s_deleted \/ selftext = s_removed THEN TRUE
       ELSE FALSE

isRedditImageURL(url) ==
    Contains(url, s_preview_host) \/ Contains(url, s_i_host)

\* the gallery loop of collectPostImages.  media lists the entries of the
\* MediaMetadata map in the order this range statement visits them: Go leaves
\* that order unspecified, so every order is an input the model is given.
RECURSIVE galleryImages(_)
galleryImages(media) ==
    IF media = <<>> THEN <<>>
    ELSE LET m == Head(media) IN
         (IF m.Status = s_valid /\ EqualFold(m.E, s_Image) /\ m.U # <<>>
          THEN <<ReplaceAll(m.U, s_amp, s_and)>> ELSE <<>>)
         \o galleryImages(Tail(media))

RECURSIVE previewImages(_)
previewImages(imgs) ==
    IF imgs = <<>> THEN <<>>
    ELSE (IF Head(imgs) = <<>> THEN <<>>
          ELSE <<ReplaceAll(Head(imgs), s_amp, s_and)>>)
         \o previewImages(Tail(imgs))

\* variant: the preview images are appended to whatever was found before
collectPostImages_Mixed(data) ==
    IF data.IsVideo THEN <<>>
    ELSE
    LET gallery == IF data.IsGallery THEN galleryImages(data.MediaMetadata)
                   ELSE <<>>
        direct == IF (data.PostHint = s_image \/ isRedditImageURL(data.URL))
                     /\ TrimSpace(data.URL) # <<>>
                  THEN <<data.URL>> ELSE <<>>
    IN (IF gallery # <<>> THEN gallery ELSE direct) \o previewImages(data.Preview)

collectPostImages(data) ==
    IF data.IsVideo THEN <<>>
    ELSE
    LET gallery == IF data.IsGallery THEN galleryImages(data.MediaMetadata)
                   ELSE <<>>
    IN
    IF gallery # <<>> THEN gallery
    ELSE
    LET direct == IF (data.PostHint = s_image \/ isRedditImageURL(data.URL))
                     /\ TrimSpace(data.URL) # <<>>
                  THEN <<data.URL>> ELSE <<>>
    IN
    IF direct = <<>> /\ Len(data.Preview) > 0
    THEN previewImages(data.Preview)
    ELSE direct

isExternalLinkURL(rawURL) ==
    IF TrimSpace(rawURL) = <<>> THEN FALSE
    ELSE
    LET parsed == Parse(rawURL) IN
    IF ~parsed.ok \/ parsed.Host = <<>> THEN FALSE
    ELSE
    LET host == ToLower(parsed.Host) IN
    IF HasSuffix(host, s_reddit_com) \/ HasSuffix(host, s_redd_it) THEN FALSE
    ELSE IF HasSuffix(host, s_i_host) \/ HasSuffix(host, s_preview_host)
            \/ HasSuffix(host, s_v_host) THEN FALSE
    ELSE TRUE

----------------------------------------------------------------------------
(* ExtractSubredditPosts                                                   *)

NoRequest == [built |-> FALSE, url |-> <<>>, query |-> {}]
NilResponse == [nil |-> TRUE, Posts |-> <<>>, NextAfter |-> <<>>, HasMore |-> FALSE]
NoReply == [kind |-> "none"]

\* variant: no default substitution
effectiveLimit_NoDefault(limit) == limit

\* if limit == 0 { limit = defaultSubredditLimit }
effectiveLimit(limit) == IF limit = 0 THEN defaultSubredditLimit ELSE limit

\* variant: the upper bound is exclusive
limitOutOfRange_Exclusive(limit) == limit < 1 \/ limit >= maxSubredditLimit

limitOutOfRange(limit) == limit < 1 \/ limit > maxSubredditLimit

\* variant: an unknown sort silently becomes the default
sortRejected_Never(sort) == FALSE

sortRejected(sort) == TrimSpace(sort) # <<>> /\ normalizeSubredditSort(sort) = <<>>

effectiveSort(sort) ==
    IF normalizeSubredditSort(sort) = <<>> THEN defaultSubredditSort
    ELSE normalizeSubredditSort(sort)

\* variant: the time range is checked for every sort
timeRangeRejected_AnySort(normalizedSort, timeRange) ==
    timeRange # <<>> /\ ~isValidTimeRange(timeRange)

timeRangeRejected(normalizedSort, timeRange) ==
    timeRange # <<>> /\ normalizedSort = s_top /\ ~isValidTimeRange(timeRange)

forwardsTimeRange(normalizedSort, timeRange) ==
    normalizedSort = s_top /\ timeRange # <<>>

\* the validation prefix of ExtractSubredditPosts: the error it returns, or nil
listingValidation(args) ==
    LET p == parseSubredditURL(args.url) IN
    IF p.err # "" THEN ValidationError(p.err)
    ELSE IF sortRejected(args.sort) THEN ValidationError("invalid sort")
    ELSE IF limitOutOfRange(effectiveLimit(args.limit))
        THEN ValidationError("limit must be between 1 and 100")
    ELSE IF timeRangeRejected(effectiveSort(args.sort), args.timeRange)
        THEN ValidationError("invalid time_range")
    ELSE NilErr

\* apiURL and its url.Values: the query is a set of <<key, value>> pairs
listingRequest(args) ==
    LET subreddit == parseSubredditURL(args.url).name
        normalizedSort == effectiveSort(args.sort)
        limit == effectiveLimit(args.limit)
    IN [built |-> TRUE,
        url   |-> s_canonical \o s_rprefix \o subreddit \o s_slash
                  \o normalizedSort \o s_json,
        query |-> {<<"limit", IntToStr(limit)>>}
                  \cup (IF args.after # <<>> THEN {<<"after", args.after>>} ELSE {})
                  \cup (IF forwardsTimeRange(normalizedSort, args.timeRange)
                        THEN {<<"t", args.timeRange>>} ELSE {})]

IdleCall ==
    [pc |-> "idle", args |-> <<>>, req |-> NoRequest, fetches |-> 0,
     reply |-> NoReply, err |-> NilErr, resp |-> NilResponse, kept |-> <<>>]

\* variant: the time range is checked only after the request went out
listingCall_LateTimeRange(args) ==
    LET early == listingValidation([args EXCEPT !.timeRange = <<>>])
        late  == listingValidation(args)
    IN
    IF early.kind # "nil"
    THEN [IdleCall EXCEPT !.pc = "done", !.args = args, !.err = early]
    ELSE IF late.kind # "nil"
    THEN [IdleCall EXCEPT !.pc = "done", !.args = args, !.err = late,
                          !.req = listingRequest(args), !.fetches = 1]
    ELSE [IdleCall EXCEPT !.pc = "fetching", !.args = args,
                          !.req = listingRequest(args), !.fetches = 1]

\* ExtractSubredditPosts up to client.Do: validate, build the request, hand it
\* to the HTTP client.  A context that is already done makes client.Do return
\* its error before anything is sent.
listingCall(args) ==
    LET v == listingValidation(args) IN
    IF v.kind # "nil"
    THEN [IdleCall EXCEPT !.pc = "done", !.args = args, !.err = v]
    ELSE IF args.ctxDone
    THEN [IdleCall EXCEPT !.pc = "done", !.args = args,
                          !.req = listingRequest(args),
                          !.err = PlainErr("context canceled")]
    ELSE [IdleCall EXCEPT !.pc = "fetching", !.args = args,
                          !.req = listingRequest(args), !.fetches = 1]

\* variant: 410 Gone is not treated as an unavailable forum
unavailableStatus_NoGone(status) ==
    status = StatusForbidden \/ status = StatusNotFound

unavailableStatus(status) ==
    status = StatusForbidden \/ status = StatusNotFound \/ status = StatusGone

\* variant: an entry is kept whatever link its permalink builds
keepsChild_AnyLink(child) ==
    /\ child.Kind = s_t3
    /\ ~isRemovedPost(child.Title, child.Selftext, child.RemovedByCategory)

\* one iteration of the children loop: the post this child yields, if any
keepsChild(child) ==
    /\ child.Kind = s_t3
    /\ ~isRemovedPost(child.Title, child.Selftext, child.RemovedByCategory)
    /\ buildRedditPostLink(child.Permalink) # <<>>

subredditPost(data) ==
    [Title        |-> data.Title,
     ImageURLs    |-> collectPostImages(data),
     PostLink     |-> buildRedditPostLink(data.Permalink),
     Score        |-> data.Score,
     Comments     |-> data.NumComments,
     ExternalLink |-> IF isExternalLinkURL(data.URL) THEN data.URL ELSE <<>>]

\* the indices of the children the loop appends a post for, in order
RECURSIVE keptFrom(_, _)
keptFrom(children, i) ==
    IF i > Len(children) THEN <<>>
    ELSE (IF keepsChild(children[i]) THEN <<i>> ELSE <<>>)
         \o keptFrom(children, i + 1)

nextAfterOf(listing) == TrimSpace(listing.After)

hasMoreOf(nextAfter) == nextAfter # <<>>

\* variant: HasMore is taken from the untrimmed upstream cursor
listingResponse_RawCursor(listing) ==
    LET kept == keptFrom(listing.Children, 1) IN
    [nil |-> FALSE,
     Posts |-> [k \in 1..Len(kept) |-> subredditPost(listing.Children[kept[k]])],
     NextAfter |-> nextAfterOf(listing),
     HasMore |-> listing.After # <<>>]

listingResponse(listing) ==
    LET kept == keptFrom(listing.Children, 1)
        nextAfter == nextAfterOf(listing)
    IN [nil |-> FALSE,
        Posts |-> [k \in 1..Len(kept) |-> subredditPost(listing.Children[kept[k]])],
        NextAfter |-> nextAfter,
        HasMore |-> hasMoreOf(nextAfter)]

unavailableResponse ==
    [nil |-> FALSE, Posts |-> <<>>, NextAfter |-> <<>>, HasMore |-> FALSE]

\* ExtractSubredditPosts from the return of client.Do to its own return.
\* reply.kind: "neterr" (client.Do failed), "http" (a response with a status
\* and a body: "readerr", "badjson" or "listing")
listingReturn(st, reply) ==
    LET done == [st EXCEPT !.pc = "done", !.reply = reply] IN
    IF reply.kind = "neterr" THEN [done EXCEPT !.err = PlainErr("request failed")]
    ELSE IF reply.status # StatusOK
    THEN IF unavailableStatus(reply.status)
         THEN [done EXCEPT !.resp = unavailableResponse]
         ELSE [done EXCEPT !.err = PlainErr("unexpected status")]
    ELSE IF reply.body = "readerr" THEN [done EXCEPT !.err = PlainErr("read failed")]
    ELSE IF reply.body = "badjson" THEN [done EXCEPT !.err = PlainErr("json")]
    ELSE [done EXCEPT !.resp = listingResponse(reply.listing),
                      !.kept = keptFrom(reply.listing.Children, 1)]

----------------------------------------------------------------------------
(* ExtractRedditPost: URL handling and the API strategy                    *)

s_comments == <<"c","o","m","m","e","n","t","s","/">>
s_Listing == <<"L","i","s","t","i","n","g">>
s_avatar == <<"a","v","a","t","a","r">>

\* ValidateRedditURL: a plain error (fmt.Errorf), or nil
ValidateRedditURL(rawURL) ==
    IF TrimSpace(rawURL) = <<>> THEN PlainErr("url is required")
    ELSE
    LET parsed == ParseRequestURI(rawURL) IN
    IF ~parsed.ok THEN PlainErr("invalid url")
    ELSE IF parsed.Scheme = <<>> \/ parsed.Host = <<>> THEN PlainErr("invalid url")
    ELSE NilErr

\* the length of the longest prefix of s[i..] made of characters in set
RECURSIVE RunLen(_, _, _)
RunLen(s, i, set) ==
    IF i <= Len(s) /\ s[i] \in set THEN 1 + RunLen(s, i + 1, set) ELSE 0

RECURSIVE SegLen(_, _)
SegLen(s, i) == IF i <= Len(s) /\ s[i] # "/" THEN 1 + SegLen(s, i + 1) ELSE 0

IdChars == Range(LowerSeq) \cup Digits

\* s[a..b], cut at the end of s
Mid(s, a, b) == SubSeq(s, a, IF b > Len(s) THEN Len(s) ELSE b)

\* redditURLRE = /r/([^/]+)/comments/([a-z0-9]+)/ matched at position i
redditURLREAt(s, i) ==
    LET n  == SegLen(s, i + 3)
        j  == i + 3 + n                     \* the '/' after the forum name
        k  == j + 1 + Len(s_comments)       \* the first character of the id
        m  == RunLen(s, k, IdChars)
    IN /\ Mid(s, i, i + 2) = s_rprefix
       /\ n > 0
       /\ Mid(s, j, j) = s_slash
       /\ Mid(s, j + 1, k - 1) = s_comments
       /\ m > 0
       /\ Mid(s, k + m, k + m) = s_slash

\* parseRedditURL: the leftmost match of redditURLRE, [ok, subreddit, postID]
parseRedditURL(redditURL) ==
    IF \E i \in 1..Len(redditURL) : redditURLREAt(redditURL, i)
    THEN LET i == CHOOSE i \in 1..Len(redditURL) :
                    /\ redditURLREAt(redditURL, i)
                    /\ \A h \in 1..(i - 1) : ~redditURLREAt(redditURL, h)
             n == SegLen(redditURL, i + 3)
             k == i + 3 + n + 1 + Len(s_comments)
         IN [ok |-> TRUE,
             subreddit |-> SubSeq(redditURL, i + 3, i + 2 + n),
             postID |-> SubSeq(redditURL, k, k + RunLen(redditURL, k, IdChars) - 1)]
    ELSE [ok |-> FALSE, subreddit |-> <<>>, postID |-> <<>>]

\* jsonURL
postJSONURL(subreddit, postID) ==
    s_canonical \o s_rprefix \o subreddit \o s_slash \o s_comments \o postID
    \o s_slash \o s_json

EmptyPost ==
    [Title |-> <<>>, Author |-> <<>>, PublishedTime |-> <<>>, Score |-> <<>>,
     CommentCount |-> <<>>, Content |-> <<>>, Images |-> <<>>, Comments |-> <<>>]

\* time.Unix(sec, 0).Format("2006-01-02 15:04:05"): the calendar arithmetic
\* and the local time zone are left out, the instant sec is written "T<sec>"
FormatTime(sec) == <<"T">> \o IntToStr(sec)

\* the gallery loop of extractRedditPostFromAPI (media in iteration order)
RECURSIVE apiGalleryImages(_)
apiGalleryImages(media) ==
    IF media = <<>> THEN <<>>
    ELSE LET m == Head(media) IN
         (IF m.Status = s_valid /\ m.E = s_Image /\ m.U # <<>>
          THEN <<ReplaceAll(m.U, s_amp, s_and)>> ELSE <<>>)
         \o apiGalleryImages(Tail(media))

\* the body of the inner loop for one "t3" child
apiPostFromChild(p, d) ==
    [p EXCEPT
        !.Title = d.Title,
        !.Author = d.Author,
        !.Score = IntToStr(d.Score),
        !.CommentCount = IntToStr(d.NumComments),
        !.Content = d.Selftext,
        !.PublishedTime = IF d.CreatedUTC > 0 THEN FormatTime(d.CreatedUTC) ELSE @,
        !.Images = @ \o (IF d.IsGallery /\ d.HasMediaMetadata
                         THEN apiGalleryImages(d.MediaMetadata)
                         ELSE IF isRedditImageURL(d.URL) THEN <<d.URL>> ELSE <<>>)]

RECURSIVE apiChildren(_, _)
apiChildren(p, children) ==
    IF children = <<>> THEN p
    ELSE apiChildren(IF Head(children).Kind = s_t3
                     THEN apiPostFromChild(p, Head(children)) ELSE p,
                     Tail(children))

\* first pass: every "Listing" item, every "t3" child, later ones overwrite
RECURSIVE apiFirstPass(_, _)
apiFirstPass(p, items) ==
    IF items = <<>> THEN p
    ELSE apiFirstPass(IF Head(items).Kind = s_Listing
                      THEN apiChildren(p, Head(items).Children) ELSE p,
                      Tail(items))

\* variant: a record that does not decode, or is no comment, ends the loop
RECURSIVE parseCommentListings_AbortOnBad(_)
parseCommentListings_AbortOnBad(children) ==
    IF children = <<>> THEN <<>>
    ELSE
    LET child == Head(children) IN
    IF child.json # "object" \/ child.Kind # s_t1 THEN <<>>
    ELSE
    LET r == child.Replies
        replies ==
            IF r.shape = "listing" /\ r.Kind = s_Listing /\ Len(r.Children) > 0
            THEN parseCommentListings_AbortOnBad(r.Children)
            ELSE <<>>
    IN <<[Body |-> child.Body, Replies |-> replies]>>
       \o parseCommentListings_AbortOnBad(Tail(children))

\* variant: replies are parsed one level deep only
RECURSIVE parseCommentListings_OneLevel(_, _)
parseCommentListings_OneLevel(children, depth) ==
    IF children = <<>> THEN <<>>
    ELSE
    LET child == Head(children)
        rest  == parseCommentListings_OneLevel(Tail(children), depth)
    IN
    IF child.json # "object" THEN rest
    ELSE IF child.Kind # s_t1 THEN rest
    ELSE
    LET r == child.Replies
        replies ==
            IF depth < 1 /\ r.shape = "listing" /\ r.Kind = s_Listing
               /\ Len(r.Children) > 0
            THEN parseCommentListings_OneLevel(r.Children, depth + 1)
            ELSE <<>>
    IN <<[Body |-> child.Body, Replies |-> replies]>> \o rest

parseCommentListings_Shallow(children) == parseCommentListings_OneLevel(children, 0)

\* parseCommentListings.  A raw child is [json, Kind, Body, Replies]: json is
\* "object" when it decodes into the anonymous struct, else "garbage";
\* Replies.shape is "absent", "empty" (the "" sentinel), "listing" (an object
\* with Kind and Children) or "other" (anything that does not decode)
RECURSIVE parseCommentListings(_)
parseCommentListings(children) ==
    IF children = <<>> THEN <<>>
    ELSE
    LET child == Head(children)
        rest  == parseCommentListings(Tail(children))
    IN
    IF child.json # "object" THEN rest
    ELSE IF child.Kind # s_t1 THEN rest
    ELSE
    LET r == child.Replies
        replies ==
            IF r.shape = "listing" /\ r.Kind = s_Listing /\ Len(r.Children) > 0
            THEN parseCommentListings(r.Children)
            ELSE <<>>
    IN <<[Body |-> child.Body, Replies |-> replies]>> \o rest

\* the typed json.Unmarshal into RedditAPIResponse fails when an element of a
\* children array is not an object
typedDecodeOK(items) ==
    \A i \in 1..Len(items) :
        \A k \in 1..Len(items[i].Children) : items[i].Children[k].json = "object"

\* the result of an API attempt: (post, err) with post possibly nil
ApiFailed(e) == [returned |-> TRUE, err |-> e, nilPost |-> TRUE, post |-> EmptyPost]
ApiNotRun == [returned |-> FALSE, err |-> NilErr, nilPost |-> TRUE, post |-> EmptyPost]

\* extractRedditPostFromAPI after client.Do returned
apiReturn(reply) ==
    IF reply.kind = "neterr" THEN ApiFailed(PlainErr("request failed"))
    ELSE IF reply.status # StatusOK THEN ApiFailed(PlainErr("unexpected status"))
    ELSE IF reply.body = "readerr" THEN ApiFailed(PlainErr("read failed"))
    ELSE IF reply.body = "badjson" \/ ~typedDecodeOK(reply.items)
        THEN ApiFailed(PlainErr("json"))
    ELSE
    LET first == apiFirstPass(EmptyPost, reply.items)
        withComments ==
            IF Len(reply.items) >= 2
            THEN [first EXCEPT !.Comments = parseCommentListings(reply.items[2].Children)]
            ELSE first
    IN [returned |-> TRUE, err |-> NilErr, nilPost |-> FALSE, post |-> withComments]

\* variant: an empty title is accepted as a result
needsFallback_ErrorOnly(api) == api.err.kind # "nil" \/ api.nilPost

\* ExtractRedditPost: err != nil || post == nil || post.Title == ""
needsFallback(api) ==
    api.err.kind # "nil" \/ api.nilPost \/ api.post.Title = <<>>

----------------------------------------------------------------------------
(* ExtractRedditPost: the markup strategy                                  *)

\* scoreLikeRE = ^\d+\.?[\d]*[kK]?$
scoreLikeRE(s) ==
    LET d1 == RunLen(s, 1, Digits)
        a  == 1 + d1 + (IF Mid(s, 1 + d1, 1 + d1) = <<".">> THEN 1 ELSE 0)
        b  == a + RunLen(s, a, Digits)
        e  == b + (IF Mid(s, b, b) \in {<<"k">>, <<"K">>} THEN 1 ELSE 0)
    IN d1 > 0 /\ e = Len(s) + 1

\* variant: a later non-empty value replaces the one already held
setIfEmpty_Overwrite(target, value) ==
    IF value # <<>> THEN value ELSE target

\* setIfEmpty(&target, value): the new value of target
setIfEmpty(target, value) ==
    IF target = <<>> /\ value # <<>> THEN value ELSE target

\* the OnHTML callbacks in the order of their registration; colly runs them in
\* that order, each once per element its selector matches.  An element is
\* [text, attr, inButton]: its text, its datetime or src attribute, and
\* whether its grandparent is a button
CB_h1 == 1
CB_author == 2
CB_time == 3
CB_score == 4
CB_number == 5
CB_comments == 6
CB_buttonNumber == 7
CB_bodyP == 8
CB_bodyDiv == 9
CB_img == 10

onHTML(cb, p, e) ==
    LET text == TrimSpace(e.text) IN
    CASE cb = CB_h1 -> [p EXCEPT !.Title = setIfEmpty(@, text)]
      [] cb = CB_author -> [p EXCEPT !.Author = setIfEmpty(@, text)]
      [] cb = CB_time ->
            IF p.PublishedTime # <<>> THEN p
            ELSE LET viaAttr == setIfEmpty(p.PublishedTime, TrimSpace(e.attr)) IN
                 [p EXCEPT !.PublishedTime =
                     IF viaAttr = <<>> THEN setIfEmpty(viaAttr, text) ELSE viaAttr]
      [] cb = CB_score -> [p EXCEPT !.Score = setIfEmpty(@, text)]
      [] cb = CB_number ->
            IF p.Score = <<>> /\ scoreLikeRE(text) THEN [p EXCEPT !.Score = text]
            ELSE p
      [] cb = CB_comments -> [p EXCEPT !.CommentCount = setIfEmpty(@, text)]
      [] cb = CB_buttonNumber ->
            IF p.CommentCount # <<>> THEN p
            ELSE IF ~scoreLikeRE(text) THEN p
            ELSE IF e.inButton THEN [p EXCEPT !.CommentCount = text]
            ELSE p
      [] cb = CB_bodyP -> [p EXCEPT !.Content = setIfEmpty(@, text)]
      [] cb = CB_bodyDiv -> [p EXCEPT !.Content = setIfEmpty(@, text)]
      [] cb = CB_img ->
            IF e.attr # <<>> /\ ~Contains(e.attr, s_avatar)
            THEN [p EXCEPT !.Images = Append(@, e.attr)]
            ELSE p

----------------------------------------------------------------------------
(* ExtractRedditPost as a process                                          *)

IdlePost ==
    [pc |-> "idle", url |-> <<>>, ctxDone |-> FALSE, fetches |-> <<>>,
     api |-> ApiNotRun, htmlInvoked |-> FALSE, work |-> EmptyPost,
     cb |-> 0, fired |-> 0, err |-> NilErr, nilPost |-> TRUE, out |-> EmptyPost]

ApiFetch(u) == [kind |-> "api", url |-> u]
HtmlFetch(u) == [kind |-> "html", url |-> u]

\* ExtractRedditPost once the API attempt has returned: keep its post, or fall
\* back to extractRedditPostFromHTML, whose c.Visit sends the page request
\* whatever the state of ctx
afterAPI(st, api) ==
    IF needsFallback(api)
    THEN [st EXCEPT !.pc = "html_wait", !.api = api, !.htmlInvoked = TRUE,
                    !.work = EmptyPost,
                    !.fetches = Append(@, HtmlFetch(st.url))]
    ELSE [st EXCEPT !.pc = "done", !.api = api, !.nilPost = FALSE,
                    !.out = api.post]

\* ExtractRedditPost from its entry to the first point where it waits.  Under
\* a context that is already done client.Do sends nothing and returns the
\* context's error wrapped in a *url.Error
postCall(url, ctxDone) ==
    LET st == [IdlePost EXCEPT !.url = url, !.ctxDone = ctxDone]
        v  == ValidateRedditURL(url)
        m  == parseRedditURL(url)
    IN
    IF v.kind # "nil" THEN [st EXCEPT !.pc = "done", !.err = v]
    ELSE IF ~m.ok THEN afterAPI(st, ApiFailed(PlainErr("invalid reddit post url")))
    ELSE IF ctxDone THEN afterAPI(st, ApiFailed(PlainErr("Get: context canceled")))
    ELSE [st EXCEPT !.pc = "api_wait",
                    !.fetches = <<ApiFetch(postJSONURL(m.subreddit, m.postID))>>]

\* c.Visit returned: with an error, or after the page was fetched
htmlVisited(st, ok) ==
    IF ok THEN [st EXCEPT !.pc = "html_parse"]
    ELSE [st EXCEPT !.pc = "done", !.err = PlainErr("visit failed")]

\* variant: a page that gave no title makes the call fail with the error of
\* the API attempt
htmlReturn_RequireTitle(st) ==
    IF st.ctxDone THEN [st EXCEPT !.pc = "done", !.err = PlainErr("context canceled")]
    ELSE IF st.work.Title = <<>> /\ st.api.err.kind # "nil"
    THEN [st EXCEPT !.pc = "done", !.err = st.api.err]
    ELSE [st EXCEPT !.pc = "done", !.nilPost = FALSE, !.out = st.work]

\* after c.Visit: the select on ctx.Done(), c.Wait(), return
htmlReturn(st) ==
    IF st.ctxDone THEN [st EXCEPT !.pc = "done", !.err = PlainErr("context canceled")]
    ELSE [st EXCEPT !.pc = "done", !.nilPost = FALSE, !.out = st.work]

----------------------------------------------------------------------------
(* inputs of the listing calls                                             *)

u_golang == <<"h","t","t","p","s",":","/","/","w","w","w",".","r","e","d","d","i","t",".","c","o","m","/","r","/","g","o","/">>
u_http == <<"h","t","t","p",":","/","/","o","l","d",".","r","e","d","d","i","t",".","c","o","m","/","r","/","g","o">>
u_empty == <<>>
u_blank == <<" "," ">>
u_malformed == <<"n","o","t","-","a","-","u","r","l">>
u_nohost == <<"/","r","/","g","o","/">>
u_user == <<"h","t","t","p","s",":","/","/","w","w","w",".","r","e","d","d","i","t",".","c","o","m","/","u","s","e","r","/","t">>
u_noname == <<"h","t","t","p","s",":","/","/","w","w","w",".","r","e","d","d","i","t",".","c","o","m","/","r","/","/">>

SortInputs ==
    {<<>>,
     <<"h","o","t">>,
     <<"n","e","w">>,
     <<"t","o","p">>,
     <<"r","i","s","i","n","g">>,
     <<"b","e","s","t">>,
     <<" ","N","e","w"," ">>,
     <<"T","O","P">>,
     <<" "," ">>}

TimeRangeInputs ==
    {<<>>,
     <<"d","a","y">>,
     <<"w","e","e","k">>,
     <<"m","o","n","t","h">>,
     <<"y","e","a","r">>,
     <<"a","l","l">>,
     <<"h","o","u","r">>,
     <<"D","A","Y">>,
     <<" ","a","l","l"," ">>,
     <<" ">>}

AfterInputs == {<<>>, <<"t","3","_","a">>}

\* how far the probed limits reach beyond the accepted range
LimitSlack == 2
LimitInputs == (0 - LimitSlack)..(maxSubredditLimit + LimitSlack)

ListingArgs(urls, sorts, ranges, limits, afters, ctxs) ==
    [url : urls, sort : sorts, timeRange : ranges, limit : limits,
     after : afters, ctxDone : ctxs]

\* every limit for a default and a "top" sort, and every sort and time range
\* for the limits at the edges of the accepted range
WideArgs ==
    ListingArgs({u_golang, u_user}, {<<>>, s_top}, {<<>>, s_day, <<"h","o","u","r">>},
                LimitInputs, {<<>>}, BOOLEAN)
    \cup ListingArgs({u_golang, u_http, u_blank}, SortInputs, TimeRangeInputs,
                     {0, 1, maxSubredditLimit}, AfterInputs, {FALSE})

FewArgs ==
    ListingArgs({u_golang, u_malformed}, {<<>>}, {<<>>}, {0, 1}, {<<>>}, {FALSE})

BaseChild ==
    [Kind |-> s_t3, Title |-> <<"a">>, Selftext |-> <<>>,
     RemovedByCategory |-> <<>>, Permalink |-> <<"/","r","/","g","o","/","c","/","1","/">>, URL |-> <<>>,
     IsVideo |-> FALSE, IsGallery |-> FALSE, PostHint |-> <<>>, Preview |-> <<>>,
     MediaMetadata |-> <<>>, Score |-> 1, NumComments |-> 0]

\* children that differ from BaseChild in one field
TitleInputs ==
    {<<" ","[","D","e","l","e","t","e","d","]"," ">>, s_removed,
     <<"d","e","l","e","t","e","d">>}

SelftextInputs == {<<"[","R","E","M","O","V","E","D","]","\n">>}

MarkerInputs == {<<" ">>, <<"m","o","d">>}

PermalinkInputs ==
    {<<"/","r","/","g","o","/",".",".","/","x">>,
     <<"h","t","t","p",":","/","/","x",".","i","o","/","r","/">>}

m_valid == [Status |-> s_valid, E |-> s_Image, U |-> <<"h","t","t","p","s",":","/","/","i",".","r","e","d","d",".","i","t","/","a","?","x","&","a","m","p",";","y">>]
m_failed == [Status |-> <<"f","a","i","l","e","d">>, E |-> s_Image, U |-> <<"h","t","t","p","s",":","/","/","i",".","r","e","d","d",".","i","t","/","b">>]
x_image == <<"h","t","t","p","s",":","/","/","i",".","r","e","d","d",".","i","t","/","c",".","p","n","g">>
x_preview == <<"h","t","t","p","s",":","/","/","p","r","e","v","i","e","w",".","r","e","d","d",".","i","t","/","p","?","a","&","a","m","p",";","b">>
x_external == <<"h","t","t","p","s",":","/","/","x",".","i","o","/","a">>
x_lookalike == <<"h","t","t","p","s",":","/","/","n","o","t","r","e","d","d","i","t",".","c","o","m","/","a">>

MediaChildren ==
    {[BaseChild EXCEPT !.IsGallery = TRUE, !.MediaMetadata = <<m_failed, m_valid>>,
                       !.URL = x_image],
     [BaseChild EXCEPT !.IsVideo = TRUE, !.URL = x_image, !.Preview = <<x_preview>>],
     [BaseChild EXCEPT !.URL = x_external, !.Preview = <<<<>>, x_preview>>],
     [BaseChild EXCEPT !.URL = x_lookalike, !.PostHint = s_image]}

\* a second ordinary post, told apart from BaseChild by title, link and score
OtherChild ==
    [BaseChild EXCEPT !.Title = <<"b">>,
                      !.Permalink = <<"/","r","/","g","o","/","c","/","2","/">>,
                      !.Score = 2]

ChildPool ==
    {BaseChild, OtherChild, [BaseChild EXCEPT !.Kind = s_t1]}
    \cup {[BaseChild EXCEPT !.Title = t] : t \in TitleInputs}
    \cup {[BaseChild EXCEPT !.Selftext = t] : t \in SelftextInputs}
    \cup {[BaseChild EXCEPT !.RemovedByCategory = m] : m \in MarkerInputs}
    \cup {[BaseChild EXCEPT !.Permalink = p] : p \in PermalinkInputs}
    \cup MediaChildren

\* the longest children sequence of an upstream listing
MaxChildren == 2

RECURSIVE SeqsUpTo(_, _)
SeqsUpTo(S, n) ==
    IF n = 0 THEN {<<>>}
    ELSE LET shorter == SeqsUpTo(S, n - 1) IN
         shorter \cup {Append(s, x) : s \in shorter, x \in S}

CursorInputs == {<<>>, <<" ">>, <<"t","3","_","b">>, <<" ","t","3","_","b","\n">>}

StatusInputs == {StatusOK, 204, 301, StatusForbidden, StatusNotFound, StatusGone, 429, 500}

HttpReply(status, body, listing) ==
    [kind |-> "http", status |-> status, body |-> body, listing |-> listing]

NoListing == [After |-> <<>>, Children |-> <<>>]

Listings(children) ==
    [After : CursorInputs, Children : SeqsUpTo(children, MaxChildren)]

Replies(children) ==
    {[kind |-> "neterr"]}
    \cup {HttpReply(s, "none", NoListing) : s \in StatusInputs \ {StatusOK}}
    \cup {HttpReply(StatusOK, b, NoListing) : b \in {"readerr", "badjson"}}
    \cup {HttpReply(StatusOK, "listing", l) : l \in Listings(children)}

WideReplies == Replies(ChildPool)
FewReplies ==
    {[kind |-> "neterr"], HttpReply(StatusGone, "none", NoListing),
     HttpReply(StatusOK, "listing", [After |-> <<"t","3","_","b">>,
                                     Children |-> <<BaseChild>>])}

----------------------------------------------------------------------------
(* the calls as processes                                                  *)

Calls == {1, 2}

\* the standalone crawler before main runs.  posts and pageCount are the
\* variables its callbacks share; visited is the collector's store of
\* requested URLs; reqs holds one entry per request the collector has issued,
\* in the order of issue.  The collector is asynchronous: every request is
\* fetched, and its callbacks run, in a goroutine of its own.
IdleCrawler ==
    [pc |-> "idle", posts |-> <<>>, pageCount |-> 0, visited |-> {},
     reqs |-> <<>>]

IdleFn == [op |-> "none", in |-> <<>>, out |-> <<>>, pc |-> "idle"]

Init ==
    /\ lst = [c \in Calls |-> IdleCall]
    /\ post = IdlePost
    /\ crawler = IdleCrawler
    /\ fn = IdleFn

\* a caller invokes ExtractSubredditPosts(ctx, url, sort, timeRange, limit, after)
ListingCall(c, argset) ==
    /\ lst[c].pc = "idle"
    /\ \E args \in argset : lst' = [lst EXCEPT ![c] = listingCall(args)]
    /\ UNCHANGED <<post, fn, crawler>>

\* variant: the reply another call has already received is reused
ListingReply_Cached(c, replies) ==
    /\ lst[c].pc = "fetching"
    /\ \E reply \in replies :
          LET seen == {lst[d].reply : d \in {x \in Calls : x # c /\ lst[x].reply # NoReply}}
              used == IF seen = {} THEN reply ELSE CHOOSE r \in seen : TRUE
          IN lst' = [lst EXCEPT ![c] = [listingReturn(lst[c], used) EXCEPT !.reply = reply]]
    /\ UNCHANGED <<post, fn, crawler>>

\* client.Do returns: the upstream's reply, or a transport error
ListingReply(c, replies) ==
    /\ lst[c].pc = "fetching"
    /\ \E reply \in replies : lst' = [lst EXCEPT ![c] = listingReturn(lst[c], reply)]
    /\ UNCHANGED <<post, fn, crawler>>

NextListing == ListingCall(1, FewArgs) \/ ListingReply(1, WideReplies)
SpecListing == Init /\ [][NextListing]_vars

NextArgs == ListingCall(1, WideArgs) \/ ListingReply(1, FewReplies)
SpecArgs == Init /\ [][NextArgs]_vars

\* two calls that differ only in limit (0 and 20) and see the same upstream
PairArgs ==
    ListingArgs({u_golang, u_user}, SortInputs, TimeRangeInputs, {0}, AfterInputs,
                BOOLEAN)

PairReplies ==
    FewReplies \cup Replies({BaseChild, [BaseChild EXCEPT !.Title = s_removed]})

PairCall ==
    /\ \A c \in Calls : lst[c].pc = "idle"
    /\ \E args \in PairArgs :
          lst' = [c \in Calls |->
                    listingCall([args EXCEPT !.limit = IF c = 1 THEN 0 ELSE 20])]
    /\ UNCHANGED <<post, fn, crawler>>

PairReply ==
    /\ \E c \in Calls : lst[c].pc = "fetching"
    /\ \E reply \in PairReplies :
          lst' = [c \in Calls |->
                    IF lst[c].pc = "fetching" THEN listingReturn(lst[c], reply)
                    ELSE lst[c]]
    /\ UNCHANGED <<post, fn, crawler>>

NextPair == PairCall \/ PairReply
SpecPair == Init /\ [][NextPair]_vars

----------------------------------------------------------------------------
(* the claims about ExtractSubredditPosts                                  *)

Returned(c) == lst[c].pc = "done"
Succeeded(c) == Returned(c) /\ lst[c].err.kind = "nil"
GotListing(c) ==
    Returned(c) /\ lst[c].reply.kind = "http" /\ lst[c].reply.status = StatusOK
    /\ lst[c].reply.body = "listing"

\* C2: every ListingResponse that ExtractSubredditPosts returns without an
\* error (a decoded page, an empty page, an unavailable forum) has
\* HasMore = (NextAfter # "").
C2_HasMoreIffCursor ==
    \A c \in Calls :
        Succeeded(c) =>
            /\ ~lst[c].resp.nil
            /\ lst[c].resp.HasMore <=> (lst[c].resp.NextAfter # <<>>)

\* C2 witness: a page whose upstream cursor is blank but not empty was returned
\* as a last page.
C2_Witness ==
    /\ GotListing(1) /\ Succeeded(1)
    /\ lst[1].reply.listing.After = <<" ">>
    /\ ~lst[1].resp.HasMore

----------------------------------------------------------------------------
\* C4: a ValidationError of ExtractSubredditPosts is returned before any
\* upstream request is issued: a call that returned one has built and sent no
\* request, and a call that has sent a request returns no ValidationError.
C4_ValidationBeforeFetch ==
    \A c \in Calls :
        /\ lst[c].err.kind = "ValidationError"
              => lst[c].fetches = 0 /\ ~lst[c].req.built
        /\ lst[c].fetches > 0 => lst[c].err.kind # "ValidationError"

\* C4 witness: the last of the checks (the time range) failed, nothing was sent.
C4_Witness ==
    /\ Returned(1)
    /\ lst[1].err = ValidationError("invalid time_range")
    /\ lst[1].fetches = 0

----------------------------------------------------------------------------
\* what the claims call a valid forum URL, sort and time range
ForumURLValid(args) == parseSubredditURL(args.url).err = ""
SortEnumeration == {s_hot, s_new, s_top, s_rising}
TimeRangeEnumeration == {s_day, s_week, s_month, s_year, s_all}
Folded(s) == ToLower(TrimSpace(s))
SortValid(args) == Folded(args.sort) \in SortEnumeration \cup {<<>>}
SortIsTop(args) == Folded(args.sort) = s_top
LimitParam(c) == {q[2] : q \in {x \in lst[c].req.query : x[1] = "limit"}}
TimeParam(c) == {q[2] : q \in {x \in lst[c].req.query : x[1] = "t"}}

\* C5 as stated: for a valid forum URL and sort, every limit outside [1,100]
\* other than 0 gives a ValidationError, and every limit in [1,100] passes
\* validation: the request is built with that limit.
C5_Original ==
    \A c \in Calls :
        Returned(c) \/ lst[c].pc = "fetching" =>
        LET a == lst[c].args IN
        ForumURLValid(a) /\ SortValid(a) =>
            /\ (a.limit # 0 /\ (a.limit < 1 \/ a.limit > 100))
                  => lst[c].err.kind = "ValidationError"
            /\ a.limit \in 1..100
                  => /\ lst[c].err.kind # "ValidationError"
                     /\ lst[c].req.built
                     /\ LimitParam(c) = {IntToStr(a.limit)}

\* the time range cannot fail validation: it is empty, the sort is not "top",
\* or it is one of the five values (compared trimmed and lower-cased)
TimeRangeHarmless(args) ==
    args.timeRange = <<>> \/ ~SortIsTop(args)
    \/ Folded(args.timeRange) \in TimeRangeEnumeration

\* C5 amended: for a valid forum URL and sort, every limit outside [1,100]
\* other than 0 gives a ValidationError; every limit in [1,100] passes
\* validation, the request being built with that limit, provided the time
\* range is empty, ignored (sort not "top") or valid.
C5_LimitRange ==
    \A c \in Calls :
        Returned(c) \/ lst[c].pc = "fetching" =>
        LET a == lst[c].args IN
        ForumURLValid(a) /\ SortValid(a) =>
            /\ (a.limit # 0 /\ (a.limit < 1 \/ a.limit > 100))
                  => lst[c].err = ValidationError("limit must be between 1 and 100")
            /\ a.limit \in 1..100 /\ TimeRangeHarmless(a)
                  => /\ lst[c].err.kind # "ValidationError"
                     /\ lst[c].req.built
                     /\ LimitParam(c) = {IntToStr(a.limit)}

\* C5 witness: limit 100 was accepted and sent, on a "top" listing.
C5_Witness ==
    /\ lst[1].pc = "fetching"
    /\ lst[1].args.limit = 100
    /\ SortIsTop(lst[1].args)
    /\ LimitParam(1) = {<<"1","0","0">>}

----------------------------------------------------------------------------
\* C7 as stated: every non-empty sort outside {hot, new, top, rising} gives a
\* ValidationError, and an empty sort becomes "hot" in the request.
C7_Original ==
    \A c \in Calls :
        Returned(c) \/ lst[c].pc = "fetching" =>
        LET a == lst[c].args IN
        ForumURLValid(a) =>
            /\ (a.sort # <<>> /\ a.sort \notin SortEnumeration)
                  => lst[c].err.kind = "ValidationError"
            /\ (a.sort = <<>> /\ a.limit \in 0..100)
                  => /\ lst[c].req.built
                     /\ lst[c].req.url
                          = s_canonical \o s_rprefix
                            \o parseSubredditURL(a.url).name \o s_slash \o s_hot \o s_json

\* C7 amended: sorts are compared trimmed and lower-cased. Every sort whose
\* trimmed, lower-cased form is non-empty and outside {hot, new, top, rising}
\* gives the ValidationError "invalid sort"; a sort that is empty or blank
\* becomes "hot" in the request.
C7_SortEnumeration ==
    \A c \in Calls :
        Returned(c) \/ lst[c].pc = "fetching" =>
        LET a == lst[c].args IN
        ForumURLValid(a) =>
            /\ (Folded(a.sort) # <<>> /\ Folded(a.sort) \notin SortEnumeration)
                  => lst[c].err = ValidationError("invalid sort")
            /\ (Folded(a.sort) = <<>> /\ a.limit \in 0..100)
                  => /\ lst[c].req.built
                     /\ lst[c].req.url
                          = s_canonical \o s_rprefix
                            \o parseSubredditURL(a.url).name \o s_slash \o s_hot \o s_json

\* C7 witness: an unknown sort was rejected for a valid forum URL and limit.
C7_Witness ==
    /\ Returned(1)
    /\ lst[1].args.sort = <<"b","e","s","t">>
    /\ lst[1].args.limit = 1
    /\ lst[1].err = ValidationError("invalid sort")

----------------------------------------------------------------------------
\* C8 as stated: with sort "top" a supplied time range outside {day, week,
\* month, year, all} gives a ValidationError; with any other sort the time
\* range causes no error and no t parameter is sent.
C8_Original ==
    \A c \in Calls :
        Returned(c) \/ lst[c].pc = "fetching" =>
        LET a == lst[c].args IN
            /\ (SortIsTop(a) /\ a.timeRange # <<>>
                /\ a.timeRange \notin TimeRangeEnumeration)
                  => lst[c].err.kind = "ValidationError"
            /\ ~SortIsTop(a)
                  => /\ lst[c].err # ValidationError("invalid time_range")
                     /\ TimeParam(c) = {}

\* C8 amended: the time range is compared trimmed and lower-cased. With sort
\* "top" a supplied time range whose trimmed, lower-cased form is outside
\* {day, week, month, year, all} gives a ValidationError; with any other sort
\* the time range causes no error and no t parameter is sent.
C8_TimeRangeOnlyForTop ==
    \A c \in Calls :
        Returned(c) \/ lst[c].pc = "fetching" =>
        LET a == lst[c].args IN
            /\ (SortIsTop(a) /\ a.timeRange # <<>>
                /\ Folded(a.timeRange) \notin TimeRangeEnumeration)
                  => lst[c].err.kind = "ValidationError"
            /\ ~SortIsTop(a)
                  => /\ lst[c].err # ValidationError("invalid time_range")
                     /\ TimeParam(c) = {}

\* C8 witness: an invalid time range went unnoticed on a "new" listing, whose
\* request carries no t parameter.
C8_Witness ==
    /\ lst[1].pc = "fetching"
    /\ lst[1].args.sort = s_new
    /\ lst[1].args.timeRange = <<"h","o","u","r">>
    /\ TimeParam(1) = {}

----------------------------------------------------------------------------
\* C9: a 403, 404 or 410 answer makes ExtractSubredditPosts succeed with no
\* posts, an empty cursor and HasMore = false; any other status but 200 makes
\* it return a non-validation error and no response.
C9_UnavailableIsEmptySuccess ==
    \A c \in Calls :
        Returned(c) /\ lst[c].reply.kind = "http" =>
            /\ lst[c].reply.status \in {403, 404, 410}
                  => /\ lst[c].err.kind = "nil"
                     /\ lst[c].resp = [nil |-> FALSE, Posts |-> <<>>,
                                       NextAfter |-> <<>>, HasMore |-> FALSE]
            /\ lst[c].reply.status \notin {200, 403, 404, 410}
                  => /\ lst[c].err.kind = "error"
                     /\ lst[c].resp.nil

\* C9 witness: a 410 answer became an empty, terminal success.
C9_Witness ==
    /\ Returned(1)
    /\ lst[1].reply.kind = "http" /\ lst[1].reply.status = 410
    /\ lst[1].err.kind = "nil" /\ lst[1].resp.Posts = <<>>

----------------------------------------------------------------------------
IsSentinel(text) == Folded(text) \in {s_deleted, s_removed}

\* lst[c].kept lists the upstream entries the returned posts were built from
ReturnedEntries(c) == {lst[c].reply.listing.Children[lst[c].kept[k]] :
                          k \in 1..Len(lst[c].kept)}

\* C10 as stated: an entry whose title or body is a sentinel, or whose removal
\* marker is non-empty, is not among the returned posts, and the call does not
\* fail because of it.
C10_Original ==
    \A c \in Calls :
        GotListing(c) =>
            /\ lst[c].err.kind = "nil"
            /\ Len(lst[c].resp.Posts) = Len(lst[c].kept)
            /\ \A e \in ReturnedEntries(c) :
                  ~(IsSentinel(e.Title) \/ IsSentinel(e.Selftext)
                    \/ e.RemovedByCategory # <<>>)

\* C10 amended: an entry whose title or body, lower-cased and trimmed, is
\* [deleted] or [removed], or whose removal marker is non-blank (non-empty
\* after trimming), is not among the returned posts, and the call does not fail
\* because of it.
C10_RemovedEntriesAbsent ==
    \A c \in Calls :
        GotListing(c) =>
            /\ lst[c].err.kind = "nil"
            /\ Len(lst[c].resp.Posts) = Len(lst[c].kept)
            /\ \A e \in ReturnedEntries(c) :
                  ~(IsSentinel(e.Title) \/ IsSentinel(e.Selftext)
                    \/ TrimSpace(e.RemovedByCategory) # <<>>)

\* C10 witness: of two entries, the one with a removed body was dropped and the
\* other returned.
C10_Witness ==
    /\ GotListing(1)
    /\ Len(lst[1].reply.listing.Children) = 2
    /\ IsSentinel(lst[1].reply.listing.Children[1].Selftext)
    /\ lst[1].kept = <<2>>
    /\ Len(lst[1].resp.Posts) = 1

----------------------------------------------------------------------------
\* C6: limit = 0 behaves like limit = 20. Two calls with the same URL, sort,
\* time range, cursor and context, one with limit 0 and one with limit 20,
\* that are given the same upstream reply, build the same request (limit=20
\* in its query), send it or not alike, and return the same response or the
\* same error.
C6_ZeroLimitIsTwenty ==
    (lst[1].pc # "idle" /\ lst[2].pc # "idle") =>
        /\ lst[1].args.limit = 0 /\ lst[2].args.limit = 20
        /\ lst[1].pc = lst[2].pc
        /\ lst[1].req = lst[2].req
        /\ lst[1].fetches = lst[2].fetches
        /\ lst[1].err = lst[2].err
        /\ lst[1].resp = lst[2].resp
        /\ lst[1].req.built => LimitParam(1) = {<<"2","0">>}

\* C6 witness: both calls returned the same non-empty page.
C6_Witness ==
    /\ Succeeded(1) /\ Succeeded(2)
    /\ lst[1].args.limit = 0 /\ lst[2].args.limit = 20
    /\ Len(lst[1].resp.Posts) = 2
    /\ lst[1].resp = lst[2].resp

----------------------------------------------------------------------------
(* buildRedditPostLink on its own                                          *)

\* the longest generated permalink path
MaxPermalinkLen == 7

PermalinkPaths == SeqsUpTo({"/", "r", "."}, MaxPermalinkLen)

\* every path over '/', 'r', '.'; the paths padded with white space; and the
\* short paths behind an absolute prefix
LinkInputs ==
    PermalinkPaths
    \cup {<<" ">> \o p \o <<"\n">> : p \in PermalinkPaths}
    \cup {pre \o p : pre \in {s_http, s_https, s_canonical, <<" ">> \o s_https},
                     p \in SeqsUpTo({"/", "r", "."}, 2)}

InitLink ==
    /\ lst = [c \in Calls |-> IdleCall]
    /\ post = IdlePost
    /\ crawler = IdleCrawler
    /\ fn \in {[op |-> "buildRedditPostLink", in |-> p, out |-> <<>>, pc |-> "ready"] :
                  p \in LinkInputs}

ApplyBuildLink ==
    /\ fn.pc = "ready" /\ fn.op = "buildRedditPostLink"
    /\ fn' = [fn EXCEPT !.out = buildRedditPostLink(fn.in), !.pc = "done"]
    /\ UNCHANGED <<lst, post, crawler>>

NextLink == ApplyBuildLink
SpecLink == InitLink /\ [][NextLink]_vars

LinkDone == fn.op = "buildRedditPostLink" /\ fn.pc = "done"

\* the path segments of a permalink: it is trimmed of white space and of
\* leading and trailing slashes, then split at '/'
Segments(p) == Split(Trim(TrimSpace(p), {"/"}), s_slash)

\* the cases in which the claim wants an empty link
MustBeEmpty(p) ==
    \/ TrimSpace(p) = <<>>
    \/ Contains(p, s_dotdot)
    \/ ~HasPrefix(TrimSpace(p), s_rprefix)
    \/ Len(Segments(p)) < 3

IsAbsolute(p) ==
    HasPrefix(TrimSpace(p), s_http) \/ HasPrefix(TrimSpace(p), s_https)

----------------------------------------------------------------------------
(* ExtractRedditPost: inputs, actions, specification                       *)

p_post == <<"h","t","t","p","s",":","/","/","w","w","w",".","r","e","d","d","i","t",".","c","o","m","/","r","/","g","o","/","c","o","m","m","e","n","t","s","/","a","1","/","t","/">>
p_upper == <<"h","t","t","p","s",":","/","/","w","w","w",".","r","e","d","d","i","t",".","c","o","m","/","r","/","g","o","/","c","o","m","m","e","n","t","s","/","A","1","/","t","/">>
p_nohost == <<"/","r","/","g","o","/","c","o","m","m","e","n","t","s","/","a","1","/">>

PostURLs == {p_post, p_upper, u_golang, p_nohost, u_malformed, u_empty}

NoReplies == [shape |-> "absent", Kind |-> <<>>, Children |-> <<>>]

\* a JSON object as both passes see it: the post fields of the typed decode
\* and the comment fields of the generic one
BaseNode ==
    [json |-> "object", Kind |-> s_t3, Title |-> <<"a">>, Author |-> <<"u">>,
     CreatedUTC |-> 5, Score |-> 12, NumComments |-> 2, Selftext |-> <<"s">>,
     IsGallery |-> FALSE, HasMediaMetadata |-> FALSE, MediaMetadata |-> <<>>,
     URL |-> <<>>, Body |-> <<>>, Replies |-> NoReplies]

CommentNode(body, replies) ==
    [BaseNode EXCEPT !.Kind = s_t1, !.Title = <<>>, !.Body = body, !.Replies = replies]

RepliesListing(children) ==
    [shape |-> "listing", Kind |-> s_Listing, Children |-> children]

c_leaf == CommentNode(<<"x">>, [NoReplies EXCEPT !.shape = "empty"])
c_tree == CommentNode(<<"y">>, RepliesListing(<<c_leaf, CommentNode(<<"z">>, NoReplies)>>))
c_more == [BaseNode EXCEPT !.Kind = <<"m","o","r","e">>]
c_garbage == [BaseNode EXCEPT !.json = "garbage"]

ListingItem(children) == [Kind |-> s_Listing, Children |-> children]

PostPayloads ==
    {<<>>,
     <<ListingItem(<<BaseNode>>)>>,
     <<ListingItem(<<BaseNode>>), ListingItem(<<c_tree, c_more, c_leaf>>)>>,
     <<ListingItem(<<[BaseNode EXCEPT !.Title = <<>>]>>), ListingItem(<<c_leaf>>)>>,
     <<ListingItem(<<BaseNode, [BaseNode EXCEPT !.Title = <<>>, !.CreatedUTC = 0]>>)>>,
     <<[Kind |-> s_t3, Children |-> <<BaseNode>>], ListingItem(<<c_leaf>>)>>,
     <<ListingItem(<<BaseNode>>), ListingItem(<<c_leaf, c_garbage>>)>>,
     <<ListingItem(<<[BaseNode EXCEPT !.IsGallery = TRUE, !.HasMediaMetadata = TRUE,
                                      !.MediaMetadata = <<m_valid, m_failed>>]>>),
       ListingItem(<<>>)>>,
     <<ListingItem(<<[BaseNode EXCEPT !.IsGallery = TRUE, !.URL = x_image]>>)>>}

ApiReply(status, body, items) ==
    [kind |-> "http", status |-> status, body |-> body, items |-> items]

ApiReplies ==
    {[kind |-> "neterr"]}
    \cup {ApiReply(s, "none", <<>>) : s \in {StatusForbidden, 500}}
    \cup {ApiReply(StatusOK, b, <<>>) : b \in {"readerr", "badjson"}}
    \cup {ApiReply(StatusOK, "payload", items) : items \in PostPayloads}

Element(text, attr, inButton) == [text |-> text, attr |-> attr, inButton |-> inButton]

FewElements ==
    {Element(<<>>, <<>>, FALSE),
     Element(<<" ","t"," ">>, <<>>, FALSE),
     Element(<<"1","2">>, <<"h","/","p">>, TRUE)}

\* how many callback invocations a fetched page causes at most
MaxFirings == 2

Callbacks == CB_h1..CB_img

\* a caller invokes ExtractRedditPost(ctx, redditURL)
PostCall(urls) ==
    /\ post.pc = "idle"
    /\ \E u \in urls, ctxDone \in BOOLEAN : post' = postCall(u, ctxDone)
    /\ UNCHANGED <<lst, fn, crawler>>

\* the caller cancels ctx, or its deadline passes, while the call is running
CtxCancel ==
    /\ post.pc \in {"api_wait", "html_wait", "html_parse"}
    /\ ~post.ctxDone
    /\ post' = [post EXCEPT !.ctxDone = TRUE]
    /\ UNCHANGED <<lst, fn, crawler>>

\* client.Do returns in extractRedditPostFromAPI
PostApiReply(replies) ==
    /\ post.pc = "api_wait"
    /\ \E reply \in replies : post' = afterAPI(post, apiReturn(reply))
    /\ UNCHANGED <<lst, fn, crawler>>

\* the page request of c.Visit is answered, or fails
PostHtmlReply ==
    /\ post.pc = "html_wait"
    /\ \E ok \in BOOLEAN : post' = htmlVisited(post, ok)
    /\ UNCHANGED <<lst, fn, crawler>>

\* colly calls the next callback on the next matching element
PostHtmlFire(elements, maxFirings) ==
    /\ post.pc = "html_parse"
    /\ post.fired < maxFirings
    /\ \E cb \in Callbacks, e \in elements :
          /\ cb >= post.cb
          /\ post' = [post EXCEPT !.work = onHTML(cb, @, e), !.cb = cb,
                                  !.fired = @ + 1]
    /\ UNCHANGED <<lst, fn, crawler>>

\* c.Visit has run every callback and returns
PostHtmlReturn ==
    /\ post.pc = "html_parse"
    /\ post' = htmlReturn(post)
    /\ UNCHANGED <<lst, fn, crawler>>

NextPost ==
    \/ PostCall(PostURLs)
    \/ CtxCancel
    \/ PostApiReply(ApiReplies)
    \/ PostHtmlReply
    \/ PostHtmlFire(FewElements, MaxFirings)
    \/ PostHtmlReturn

SpecPost == Init /\ [][NextPost]_vars

----------------------------------------------------------------------------
\* the API attempt did not yield a usable post: it returned an error, no
\* post, or a post with an empty title
ApiUnusable ==
    post.api.err.kind # "nil" \/ post.api.nilPost \/ post.api.post.Title = <<>>

HtmlFetched == \E i \in 1..Len(post.fetches) : post.fetches[i].kind = "html"

\* C1: ExtractRedditPost is a strict fallback chain. Once the URL passed
\* validation the API strategy is attempted, and before anything else; the
\* markup strategy is invoked if and only if the API attempt returned an
\* error, no post, or a post with an empty title; when the API attempt returns
\* a post with a non-empty title, that post is returned and no markup fetch is
\* issued.
C1_StrictFallbackChain ==
    /\ (post.pc # "idle" /\ ValidateRedditURL(post.url).kind = "nil")
          => post.api.returned \/ post.pc = "api_wait"
    /\ post.htmlInvoked <=> (post.api.returned /\ ApiUnusable)
    /\ HtmlFetched => post.htmlInvoked
    /\ \A i \in 1..Len(post.fetches) :
          post.fetches[i].kind = "api" => i = 1
    /\ (post.api.returned /\ ~ApiUnusable)
          => /\ post.pc = "done"
             /\ post.err.kind = "nil" /\ ~post.nilPost
             /\ post.out = post.api.post
             /\ ~HtmlFetched

\* C1 witness: the API answered with a post whose title is empty, the markup
\* strategy was invoked after it and its post was returned.
C1_Witness ==
    /\ post.pc = "done"
    /\ post.api.returned /\ post.api.err.kind = "nil" /\ ~post.api.nilPost
    /\ post.api.post.Title = <<>>
    /\ Len(post.fetches) = 2
    /\ post.fetches[1].kind = "api" /\ post.fetches[2].kind = "html"
    /\ ~post.nilPost /\ post.out.Title = <<"t">>

----------------------------------------------------------------------------
(* parseSubredditURL / ValidateSubredditURL on their own                   *)

\* the longest generated forum path, after its leading slash
MaxForumPathLen == 6

ForumPaths == {<<>>} \cup {s_slash \o p : p \in SeqsUpTo({"/", "r", "g"}, MaxForumPathLen)}

\* what precedes the path: a scheme and a host ...
WellFormedPrefixes ==
    {s_canonical,
     <<"h","t","t","p",":","/","/","h">>,
     <<"H","T","T","P","S",":","/","/","h",":","8","0">>}

\* ... or nothing, blanks, a host without scheme, a scheme without host
MalformedPrefixes ==
    {<<>>, <<" "," ">>, <<"h">>, <<"h","t","t","p","s",":">>, <<" ">> \o s_canonical}

\* a path that begins with "//" would supply the host a prefix lacks
ForumInputs ==
    [prefix : WellFormedPrefixes, path : ForumPaths]
    \cup [prefix : MalformedPrefixes,
          path : {p \in ForumPaths : ~HasPrefix(p, <<"/","/">>)}]

ForumArgs(rawURL) ==
    [url |-> rawURL, sort |-> <<>>, timeRange |-> <<>>, limit |-> 0,
     after |-> <<>>, ctxDone |-> FALSE]

InitForum ==
    /\ lst = [c \in Calls |-> IdleCall]
    /\ post = IdlePost
    /\ crawler = IdleCrawler
    /\ fn \in {[op |-> "ValidateSubredditURL", in |-> i, out |-> <<>>, pc |-> "ready"] :
                  i \in ForumInputs}

\* ValidateSubredditURL(rawURL) and ExtractSubredditPosts(ctx, rawURL, "", "", 0, "")
\* up to its request; ValidateRedditURL(rawURL) and ExtractRedditPost(ctx, rawURL)
\* up to its first request
ApplyValidators ==
    /\ fn.pc = "ready" /\ fn.op = "ValidateSubredditURL"
    /\ LET rawURL == fn.in.prefix \o fn.in.path IN
       fn' = [fn EXCEPT !.pc = "done",
                        !.out = [err |-> ValidateSubredditURL(rawURL),
                                 call |-> listingCall(ForumArgs(rawURL)),
                                 postErr |-> ValidateRedditURL(rawURL),
                                 postCall |-> postCall(rawURL, FALSE)]]
    /\ UNCHANGED <<lst, post, crawler>>

NextForum == ApplyValidators
SpecForum == InitForum /\ [][NextForum]_vars

ForumDone == fn.op = "ValidateSubredditURL" /\ fn.pc = "done"

\* the segments of the generated path, and the markers in it: an "r" segment
\* followed by a non-empty segment
PathSegments == Split(fn.in.path, s_slash)
IsMarker(i) ==
    /\ i \in 1..(Len(PathSegments) - 1)
    /\ PathSegments[i] = s_r
    /\ PathSegments[i + 1] # <<>>
HasMarker == \E i \in 1..Len(PathSegments) : IsMarker(i)
FirstForumName ==
    PathSegments[(CHOOSE i \in 1..Len(PathSegments) :
                     IsMarker(i) /\ \A j \in 1..(i - 1) : ~IsMarker(j)) + 1]

\* C11: ValidateSubredditURL rejects the empty string, strings that are not a
\* URL with scheme and host, URLs whose path has no "r" segment and URLs where
\* no "r" segment is followed by a non-empty one; it accepts every URL with
\* scheme and host whose path has an "r" segment followed by a non-empty
\* segment, and ExtractSubredditPosts then requests the forum named by the
\* segment after the first such marker.
C11_ForumURLValidation ==
    ForumDone =>
        IF fn.in.prefix \in WellFormedPrefixes /\ HasMarker
        THEN /\ fn.out.err = NilErr
             /\ fn.out.call.err = NilErr
             /\ fn.out.call.req.built
             /\ fn.out.call.req.url
                  = s_canonical \o s_rprefix \o FirstForumName \o s_slash
                    \o s_hot \o s_json
        ELSE /\ fn.out.err.kind # "nil"
             /\ fn.out.call.err = fn.out.err
             /\ ~fn.out.call.req.built

\* C11 witness: a path with two markers, /r/r/g, was accepted and the forum
\* after the first marker, "r", requested.
C11_Witness ==
    /\ ForumDone
    /\ fn.in.prefix = <<"h","t","t","p",":","/","/","h">>
    /\ fn.in.path = <<"/","r","/","r","/","g">>
    /\ fn.out.err = NilErr
    /\ fn.out.call.req.url
         = s_canonical \o <<"/","r","/","r","/","h","o","t",".","j","s","o","n">>

----------------------------------------------------------------------------
\* C12: every failure of URL validation is a ValidationError, for both
\* validators and for the extractors that call them: whenever
\* ValidateSubredditURL, ValidateRedditURL, ExtractSubredditPosts or
\* ExtractRedditPost rejects a URL, the error is a ValidationError and never
\* a plain error.
C12_Original ==
    ForumDone =>
        /\ fn.out.err.kind # "nil" => fn.out.err.kind = "ValidationError"
        /\ fn.out.err.kind # "nil" => fn.out.call.err.kind = "ValidationError"
        /\ fn.out.postErr.kind # "nil" => fn.out.postErr.kind = "ValidationError"
        /\ fn.out.postErr.kind # "nil" => fn.out.postCall.err.kind = "ValidationError"

\* C12, the half that the listing side satisfies: a URL rejected by
\* ValidateSubredditURL gives a ValidationError there and in ExtractSubredditPosts.
C12_ListingSide ==
    ForumDone =>
        /\ fn.out.err.kind # "nil" => fn.out.err.kind = "ValidationError"
        /\ fn.out.err.kind # "nil" => fn.out.call.err.kind = "ValidationError"

\* C12 witness: the empty URL was rejected by both validators and by both
\* extractors, by the post side with a plain error.
C12_Witness ==
    /\ ForumDone
    /\ fn.in.prefix = <<>> /\ fn.in.path = <<>>
    /\ fn.out.err = ValidationError("url is required")
    /\ fn.out.postErr = PlainErr("url is required")
    /\ fn.out.postCall.pc = "done" /\ fn.out.postCall.err = PlainErr("url is required")

----------------------------------------------------------------------------
\* the URL of the call has scheme and host but not the
\* /r/<name>/comments/<id>/ pattern
PatternMissing ==
    /\ post.pc # "idle"
    /\ ValidateRedditURL(post.url) = NilErr
    /\ ~parseRedditURL(post.url).ok

\* C13: for a well-formed URL without the /r/<name>/comments/<id>/ pattern
\* ExtractRedditPost fails hard: no network fetch is ever issued, no other
\* strategy is tried, and the call returns an error and no post.
C13_Original ==
    PatternMissing =>
        /\ post.fetches = <<>>
        /\ ~post.htmlInvoked
        /\ post.pc = "done"
        /\ post.err.kind # "nil"
        /\ post.nilPost

\* C13 witness: for the forum URL https://www.reddit.com/r/go/ the API
\* strategy failed on the pattern without a fetch, the page was fetched by the
\* markup strategy and its post returned as a success.
C13_Witness ==
    /\ PatternMissing
    /\ post.url = u_golang
    /\ post.api = ApiFailed(PlainErr("invalid reddit post url"))
    /\ post.fetches = <<HtmlFetch(u_golang)>>
    /\ post.pc = "done"
    /\ post.err = NilErr
    /\ ~post.nilPost

----------------------------------------------------------------------------
(* parseCommentListings on its own                                         *)

\* the most children of a generated replies listing, and the most records of
\* a generated top-level listing
MaxReplies == 2
MaxComments == 2

n_absent == CommentNode(<<"x">>, NoReplies)
n_empty == CommentNode(<<"y">>, [NoReplies EXCEPT !.shape = "empty"])
n_other == CommentNode(<<"w">>, [NoReplies EXCEPT !.shape = "other"])
n_broken == [CommentNode(<<"g">>, NoReplies) EXCEPT !.json = "garbage"]
n_twin == CommentNode(<<"z">>, RepliesListing(<<n_absent, n_empty>>))
n_mixed == CommentNode(<<"z">>, RepliesListing(<<n_broken, n_empty>>))
n_deep == CommentNode(<<"v">>, RepliesListing(<<n_twin, n_twin>>))

CommentLeaves == {n_absent, n_empty, n_other, n_broken, c_more}

\* comments with one level of replies; one of them in a listing of the wrong kind
ReplyNodes1 ==
    {CommentNode(<<"z">>, RepliesListing(s)) : s \in SeqsUpTo(CommentLeaves, MaxReplies)}
    \cup {CommentNode(<<"z">>, [RepliesListing(<<n_absent>>) EXCEPT !.Kind = s_t1])}

\* comments with two levels of replies
ReplyNodes2 ==
    {CommentNode(<<"v">>, RepliesListing(s)) :
        s \in SeqsUpTo({n_absent, c_more, n_twin, n_mixed}, MaxReplies)}

CommentInputs ==
    SeqsUpTo({n_absent, n_broken, c_more, n_twin, n_deep}, MaxComments)
    \cup {<<n>> : n \in ReplyNodes1 \cup ReplyNodes2}

InitComments ==
    /\ lst = [c \in Calls |-> IdleCall]
    /\ post = IdlePost
    /\ crawler = IdleCrawler
    /\ fn \in {[op |-> "parseCommentListings", in |-> s, out |-> <<>>, pc |-> "ready"] :
                  s \in CommentInputs}

ApplyParseCommentListings ==
    /\ fn.pc = "ready" /\ fn.op = "parseCommentListings"
    /\ fn' = [fn EXCEPT !.out = parseCommentListings(fn.in), !.pc = "done"]
    /\ UNCHANGED <<lst, post, crawler>>

NextComments == ApplyParseCommentListings
SpecComments == InitComments /\ [][NextComments]_vars

CommentsDone == fn.op = "parseCommentListings" /\ fn.pc = "done"

\* a record that decodes and carries the comment kind
IsCommentRecord(n) == n.json = "object" /\ n.Kind = s_t1

\* a replies field holding a nested listing of exactly two comment records
HasTwoReplies(n) ==
    /\ n.Replies.shape = "listing" /\ n.Replies.Kind = s_Listing
    /\ Len(n.Replies.Children) = 2
    /\ \A k \in 1..2 : IsCommentRecord(n.Replies.Children[k])

\* the rule of C14 for a comment record n and the Comment c made from it
RECURSIVE RepliesRule(_, _)
RepliesRule(n, c) ==
    /\ c.Body = n.Body
    /\ n.Replies.shape \in {"absent", "empty"} => c.Replies = <<>>
    /\ HasTwoReplies(n) =>
          /\ Len(c.Replies) = 2
          /\ \A k \in 1..2 : RepliesRule(n.Replies.Children[k], c.Replies[k])

\* C14: parseCommentListings builds the reply tree recursively: a comment
\* whose replies field is the "" sentinel or absent gets an empty replies
\* sequence, a comment whose replies field is a nested listing of two "t1"
\* children gets exactly two replies, and the same holds for each of them at
\* every depth.
C14_ReplyTree ==
    (CommentsDone /\ \A i \in 1..Len(fn.in) : IsCommentRecord(fn.in[i])) =>
        /\ Len(fn.out) = Len(fn.in)
        /\ \A i \in 1..Len(fn.in) : RepliesRule(fn.in[i], fn.out[i])

\* C14 witness: a comment with two replies, each of which has the two replies
\* "x" (replies absent) and "y" (replies ""), was parsed into that tree.
C14_Witness ==
    /\ CommentsDone
    /\ fn.in = <<n_deep>>
    /\ LET leaf(b) == [Body |-> b, Replies |-> <<>>]
           twin == [Body |-> <<"z">>, Replies |-> <<leaf(<<"x">>), leaf(<<"y">>)>>]
       IN fn.out = <<[Body |-> <<"v">>, Replies |-> <<twin, twin>>]>>

\* the children a comment record's replies field contributes
NestedRecords(n) ==
    IF n.Replies.shape = "listing" /\ n.Replies.Kind = s_Listing
    THEN n.Replies.Children ELSE <<>>

\* comments is exactly what the comment records among children give, in order
RECURSIVE MatchesRecords(_, _)
MatchesRecords(children, comments) ==
    LET sel == SelectSeq(children, IsCommentRecord) IN
    /\ Len(comments) = Len(sel)
    /\ \A k \in 1..Len(sel) :
          /\ comments[k].Body = sel[k].Body
          /\ MatchesRecords(NestedRecords(sel[k]), comments[k].Replies)

\* C15: in parseCommentListings a malformed or non-comment record never aborts
\* its siblings: at every nesting level the output is exactly the
\* order-preserving subsequence of the records that decode and carry kind
\* "t1", and the function always returns.
C15_SiblingsSurvive ==
    CommentsDone => MatchesRecords(fn.in, fn.out)

\* C15 witness: inside a reply listing the record that does not decode was
\* skipped and the comment after it kept.
C15_Witness ==
    /\ CommentsDone
    /\ fn.in = <<CommentNode(<<"v">>, RepliesListing(<<n_mixed, c_more>>))>>
    /\ fn.out = <<[Body |-> <<"v">>,
                   Replies |-> <<[Body |-> <<"z">>,
                                  Replies |-> <<[Body |-> <<"y">>, Replies |-> <<>>]>>]>>]>>

----------------------------------------------------------------------------
(* listing calls and a post call side by side                              *)

\* a valid listing call under a live and under a cancelled context
BothArgs == ListingArgs({u_golang}, {<<>>}, {<<>>}, {1}, {<<>>}, BOOLEAN)

BothReplies ==
    {[kind |-> "neterr"],
     HttpReply(StatusOK, "listing", [After |-> <<"t","3","_","b">>,
                                     Children |-> <<BaseChild>>])}

BothURLs == {p_post, u_empty}

BothApiReplies ==
    {[kind |-> "neterr"],
     ApiReply(StatusOK, "payload", <<ListingItem(<<BaseNode>>), ListingItem(<<c_tree>>)>>)}

BothElements == {Element(<<" ","t"," ">>, <<>>, FALSE)}

\* callback invocations per fetched page while calls run side by side
BothFirings == 1

NextBoth ==
    \/ \E c \in Calls : ListingCall(c, BothArgs)
    \/ \E c \in Calls : ListingReply(c, BothReplies)
    \/ PostCall(BothURLs)
    \/ CtxCancel
    \/ PostApiReply(BothApiReplies)
    \/ PostHtmlReply
    \/ PostHtmlFire(BothElements, BothFirings)
    \/ PostHtmlReturn

SpecBoth == Init /\ [][NextBoth]_vars

\* the context of the post call was already done when the API strategy was
\* about to send its request
PostCancelledAtCall ==
    /\ post.pc # "idle"
    /\ ValidateRedditURL(post.url) = NilErr /\ parseRedditURL(post.url).ok
    /\ post.api = ApiFailed(PlainErr("Get: context canceled"))

\* C16: cancellation is observed before a fetch is issued: a call of
\* ExtractSubredditPosts or ExtractRedditPost with a valid URL and a context
\* that is already done returns an error, issues no network fetch in the API
\* or in the markup strategy, and returns no parsed data.
C16_Original ==
    /\ \A c \in Calls :
          (lst[c].pc # "idle" /\ lst[c].args.ctxDone /\ ForumURLValid(lst[c].args))
             => /\ lst[c].fetches = 0
                /\ lst[c].pc = "done"
                /\ lst[c].err.kind # "nil"
                /\ lst[c].resp = NilResponse
    /\ PostCancelledAtCall
          => /\ post.fetches = <<>>
             /\ post.pc = "done"
             /\ post.err.kind # "nil"
             /\ post.nilPost

\* C16 witness: ExtractRedditPost was called with a cancelled context; the API
\* strategy sent nothing, the markup strategy fetched the page, and only then
\* the call returned the context's error.
C16_Witness ==
    /\ PostCancelledAtCall
    /\ post.url = p_post
    /\ post.fetches = <<HtmlFetch(p_post)>>
    /\ post.pc = "done"
    /\ post.err = PlainErr("context canceled")
    /\ post.nilPost
    /\ \E c \in Calls : lst[c].pc = "done" /\ lst[c].args.ctxDone /\ lst[c].fetches = 0

----------------------------------------------------------------------------
(* collectPostImages on its own                                            *)

\* the most entries of a generated media-metadata map and preview list
MaxMedia == 2
MaxPreview == 2

m_lower == [m_valid EXCEPT !.E = s_image, !.U = x_image]
m_nourl == [m_valid EXCEPT !.U = <<>>]

MediaInputs == SeqsUpTo({m_valid, m_failed, m_lower, m_nourl}, MaxMedia)
PreviewInputs == SeqsUpTo({<<>>, x_preview}, MaxPreview)

ImageInputs ==
    {[BaseChild EXCEPT !.IsGallery = g, !.MediaMetadata = mm, !.URL = u,
                       !.PostHint = h, !.Preview = pv] :
        g \in BOOLEAN, mm \in MediaInputs, u \in {<<>>, <<" ">>, x_image, x_external},
        h \in {<<>>, s_image}, pv \in PreviewInputs}
    \cup {[BaseChild EXCEPT !.IsVideo = TRUE, !.IsGallery = g, !.MediaMetadata = mm,
                            !.URL = x_image, !.PostHint = s_image, !.Preview = <<x_preview>>] :
             g \in BOOLEAN, mm \in {<<>>, <<m_valid>>}}

InitImages ==
    /\ lst = [c \in Calls |-> IdleCall]
    /\ post = IdlePost
    /\ crawler = IdleCrawler
    /\ fn \in {[op |-> "collectPostImages", in |-> d, out |-> <<>>, pc |-> "ready"] :
                  d \in ImageInputs}

ApplyCollectPostImages ==
    /\ fn.pc = "ready" /\ fn.op = "collectPostImages"
    /\ fn' = [fn EXCEPT !.out = collectPostImages(fn.in), !.pc = "done"]
    /\ UNCHANGED <<lst, post, crawler>>

NextImages == ApplyCollectPostImages
SpecImages == InitImages /\ [][NextImages]_vars

ImagesDone == fn.op = "collectPostImages" /\ fn.pc = "done"

\* a URL with the ampersand entity decoded
Decoded(u) == ReplaceAll(u, s_amp, s_and)

DecodedMedia(media) == [i \in 1..Len(media) |-> Decoded(media[i].U)]

\* the non-empty preview-image URLs, decoded
DecodedPreviews(d) ==
    LET kept == SelectSeq(d.Preview, LAMBDA u : u # <<>>) IN
    [i \in 1..Len(kept) |-> Decoded(kept[i])]

ImageHinted(d) == d.PostHint = s_image \/ isRedditImageURL(d.URL)

\* the images the priority rule yields from the gallery part, the entry URL
\* (if it counts as one) and the previews
ByPriority(d, gallery, hasURL) ==
    IF d.IsVideo THEN <<>>
    ELSE IF gallery # <<>> THEN gallery
    ELSE IF ImageHinted(d) /\ hasURL THEN <<d.URL>>
    ELSE DecodedPreviews(d)

\* C17 as stated: a video entry has no images; otherwise the gallery media
\* entries with status valid and type Image, decoded, if there is at least
\* one; otherwise the entry URL if it is image-hinted or on an image host;
\* otherwise the non-empty preview URLs, decoded.
C17_Original ==
    ImagesDone =>
        LET d == fn.in
            media == IF d.IsGallery
                     THEN SelectSeq(d.MediaMetadata,
                                    LAMBDA m : m.Status = s_valid /\ m.E = s_Image)
                     ELSE <<>>
        IN fn.out = ByPriority(d, DecodedMedia(media), d.URL # <<>>)

\* C17 amended: as stated, where the gallery media entries are those of an
\* entry flagged as gallery that have status valid, a type equal to "Image"
\* regardless of case and a non-empty URL, and where the entry URL is used only
\* if it is not blank.
C17_ImagePriority ==
    ImagesDone =>
        LET d == fn.in
            media == IF d.IsGallery
                     THEN SelectSeq(d.MediaMetadata,
                                    LAMBDA m : /\ m.Status = s_valid
                                               /\ ToLower(m.E) = s_image
                                               /\ m.U # <<>>)
                     ELSE <<>>
        IN fn.out = ByPriority(d, DecodedMedia(media), TrimSpace(d.URL) # <<>>)

\* C17 witness: a gallery entry with one failed and one valid media entry, an
\* image URL and a preview yields the valid gallery image alone, decoded.
C17_Witness ==
    /\ ImagesDone
    /\ ~fn.in.IsVideo /\ fn.in.IsGallery
    /\ fn.in.MediaMetadata = <<m_failed, m_valid>>
    /\ fn.in.URL = x_image
    /\ fn.in.Preview = <<x_preview>>
    /\ fn.out = <<<<"h","t","t","p","s",":","/","/","i",".","r","e","d","d",".","i","t","/","a","?","x","&","y">>>>

----------------------------------------------------------------------------
\* the host of a target URL, lower-cased
TargetHost(u) == ToLower(Parse(u).Host)

\* reddit.com or one of its subdomains
OnForumDomain(h) == h = s_reddit_com \/ HasSuffix(h, <<".">> \o s_reddit_com)

\* one of the first-party media hosts
OnMediaHost(h) == h \in {s_i_host, s_preview_host, s_v_host}

\* a target URL that is off-domain: non-empty, with a host that is neither on
\* the forum domain nor a media host
OffDomain(u) ==
    /\ u # <<>>
    /\ Parse(u).ok /\ Parse(u).Host # <<>>
    /\ ~OnForumDomain(TargetHost(u))
    /\ ~OnMediaHost(TargetHost(u))

\* C18: the ExternalLink of a returned post equals the entry's target URL
\* exactly when that URL is non-empty, parses with a host, and the host is
\* neither reddit.com or a subdomain of it nor i.redd.it, preview.redd.it or
\* v.redd.it; otherwise it is empty.  A host that only ends in the letters of
\* the forum domain, such as notreddit.com, is external.
C18_Original ==
    \A c \in Calls :
        GotListing(c) =>
            \A k \in 1..Len(lst[c].kept) :
                LET e == lst[c].reply.listing.Children[lst[c].kept[k]]
                    p == lst[c].resp.Posts[k]
                IN p.ExternalLink = IF OffDomain(e.URL) THEN e.URL ELSE <<>>

\* C18 witness: an entry whose target is https://notreddit.com/a was returned
\* with an empty ExternalLink.
C18_Witness ==
    /\ GotListing(1)
    /\ \E k \in 1..Len(lst[1].kept) :
          /\ lst[1].reply.listing.Children[lst[1].kept[k]].URL = x_lookalike
          /\ lst[1].resp.Posts[k].ExternalLink = <<>>
    /\ \E k \in 1..Len(lst[1].kept) :
          /\ lst[1].reply.listing.Children[lst[1].kept[k]].URL = x_external
          /\ lst[1].resp.Posts[k].ExternalLink = x_external

----------------------------------------------------------------------------
\* the call has returned after falling back to the markup strategy
FellBack == post.pc = "done" /\ post.htmlInvoked

\* C19: once the fallback to the markup strategy is taken, ExtractRedditPost
\* fails only if c.Visit fails or cancellation is observed after it; otherwise
\* it returns what the callbacks collected, even if every field stayed empty;
\* the error of a failed API attempt is never the error returned.
C19_MarkupFailsOnlyOnFetch ==
    FellBack =>
        /\ post.err.kind # "nil" =>
              /\ post.nilPost
              /\ post.err \in {PlainErr("visit failed"), PlainErr("context canceled")}
        /\ post.err = PlainErr("context canceled") => post.ctxDone
        /\ post.err.kind = "nil" => ~post.nilPost /\ post.out = post.work
        /\ post.api.err.kind # "nil" => post.err # post.api.err

\* C19 witness: the API request failed, the page was fetched, no callback set
\* a field, and the empty post was returned as a success.
C19_Witness ==
    /\ FellBack
    /\ post.api = ApiFailed(PlainErr("request failed"))
    /\ post.fetches = <<ApiFetch(postJSONURL(<<"g","o">>, <<"a","1">>)), HtmlFetch(p_post)>>
    /\ post.err = NilErr
    /\ ~post.nilPost
    /\ post.out = EmptyPost

----------------------------------------------------------------------------
\* what a listing call in state st is when run alone with the arguments and
\* the upstream reply recorded in st
AloneListing(st) ==
    LET called == listingCall(st.args) IN
    IF called.pc = "done" \/ st.pc = "fetching" THEN called
    ELSE listingReturn(called, st.reply)

\* the states a post call in state st can move to on its own: by its own
\* arguments, its own upstream replies and its own context
OwnPostSteps(st) ==
    (IF st.pc = "idle"
     THEN {postCall(u, x) : u \in BothURLs, x \in BOOLEAN} ELSE {})
    \cup (IF st.pc \in {"api_wait", "html_wait", "html_parse"}
          THEN {[st EXCEPT !.ctxDone = TRUE]} ELSE {})
    \cup (IF st.pc = "api_wait"
          THEN {afterAPI(st, apiReturn(r)) : r \in BothApiReplies} ELSE {})
    \cup (IF st.pc = "html_wait"
          THEN {htmlVisited(st, ok) : ok \in BOOLEAN} ELSE {})
    \cup (IF st.pc = "html_parse"
          THEN {htmlReturn(st)}
               \cup {[st EXCEPT !.work = onHTML(cb, @, e), !.cb = cb, !.fired = @ + 1] :
                        cb \in {x \in Callbacks : x >= st.cb}, e \in BothElements}
          ELSE {})

\* a step of one call leaves the other calls as they are
OneCallMoves ==
    /\ \A c \in Calls :
          lst'[c] # lst[c] =>
              /\ \A d \in Calls \ {c} : lst'[d] = lst[d]
              /\ post' = post
    /\ post' # post =>
          /\ lst' = lst
          /\ post' \in OwnPostSteps(post)

----------------------------------------------------------------------------
(* the posts of a decoded listing                                          *)

\* an upstream entry that is a post, is not removed or deleted, and has a
\* permalink that builds a link
Eligible(e) ==
    /\ e.Kind = <<"t","3">>
    /\ ~(IsSentinel(e.Title) \/ IsSentinel(e.Selftext)
         \/ TrimSpace(e.RemovedByCategory) # <<>>)
    /\ buildRedditPostLink(e.Permalink) # <<>>

\* C21: on a status-200, decodable listing the call succeeds and the returned
\* posts are, in order, built from exactly the upstream children that are
\* tagged "t3", are not removed or deleted and whose permalink builds a
\* non-empty link; an entry with an invalid permalink is left out without an
\* error, and every returned post has a non-empty PostLink.
C21_PostsAreEligibleSubsequence ==
    \A c \in Calls :
        GotListing(c) =>
            LET from == SelectSeq(lst[c].reply.listing.Children, Eligible)
                posts == lst[c].resp.Posts
            IN /\ lst[c].err.kind = "nil"
               /\ Len(posts) = Len(from)
               /\ \A k \in 1..Len(posts) :
                     /\ posts[k].Title = from[k].Title
                     /\ posts[k].Score = from[k].Score
                     /\ posts[k].Comments = from[k].NumComments
                     /\ posts[k].PostLink = buildRedditPostLink(from[k].Permalink)
                     /\ posts[k].PostLink # <<>>

\* C21 witness: a decoded listing held an entry with an invalid permalink and
\* an ordinary post after it; the call succeeded and returned that post alone.
C21_Witness ==
    /\ GotListing(1)
    /\ lst[1].err.kind = "nil"
    /\ Len(lst[1].reply.listing.Children) = 2
    /\ lst[1].reply.listing.Children[1].Kind = <<"t","3">>
    /\ buildRedditPostLink(lst[1].reply.listing.Children[1].Permalink) = <<>>
    /\ lst[1].reply.listing.Children[2] = OtherChild
    /\ Len(lst[1].resp.Posts) = 1
    /\ lst[1].resp.Posts[1].Title = OtherChild.Title

----------------------------------------------------------------------------
\* C22: a call that returns posts returns at most `limit` of them, at most 20
\* when limit is 0, however many children the upstream listing holds.
C22_Original ==
    \A c \in Calls :
        Succeeded(c) =>
            Len(lst[c].resp.Posts) <= (IF lst[c].args.limit = 0 THEN 20
                                       ELSE lst[c].args.limit)

\* C22 witness: a call with limit 1 whose request carried limit=1 returned the
\* two posts the upstream sent.
C22_Witness ==
    /\ Succeeded(1)
    /\ lst[1].args.limit = 1
    /\ LimitParam(1) = {<<"1">>}
    /\ lst[1].reply.listing.Children = <<BaseChild, OtherChild>>
    /\ Len(lst[1].resp.Posts) = 2

----------------------------------------------------------------------------
\* the path holds an "r" segment followed by an empty segment
HasEmptyName == Contains(fn.in.path, <<"/","r","/","/">>)

\* C23: every URL whose path contains "/r//", an "r" segment followed by an
\* empty segment, is rejected by ValidateSubredditURL and by
\* ExtractSubredditPosts, even when a later "r" segment in the same path is
\* followed by a non-empty segment.
C23_Original ==
    ForumDone /\ HasEmptyName =>
        /\ fn.out.err.kind = "ValidationError"
        /\ fn.out.call.err.kind = "ValidationError"

\* C23 amended: an "r" segment followed by an empty segment is not a match
\* and the scan goes on. A URL whose path contains "/r//" is rejected with a
\* ValidationError unless some "r" segment of the path is followed by a
\* non-empty segment; if one is, the URL is accepted and the forum is the
\* segment after the first such "r".
C23_EmptyNameIsSkipped ==
    ForumDone /\ HasEmptyName /\ fn.in.prefix \in WellFormedPrefixes =>
        IF HasMarker
        THEN /\ fn.out.err = NilErr
             /\ fn.out.call.err = NilErr
             /\ fn.out.call.req.url
                  = s_canonical \o s_rprefix \o FirstForumName \o s_slash
                    \o s_hot \o s_json
        ELSE /\ fn.out.err = ValidationError("invalid subreddit url")
             /\ fn.out.call.err = ValidationError("invalid subreddit url")
             /\ ~fn.out.call.req.built

\* C23 witness: https://www.reddit.com/r//r/g was accepted and the forum "g"
\* requested.
C23_Witness ==
    /\ ForumDone
    /\ fn.in.prefix = s_canonical
    /\ fn.in.path = <<"/","r","/","/","r","/","g">>
    /\ fn.out.err = NilErr
    /\ fn.out.call.req.url
         = s_canonical \o <<"/","r","/","g","/","h","o","t",".","j","s","o","n">>

----------------------------------------------------------------------------
(* the OnHTML callbacks of the markup strategy over one page               *)

\* how many callback invocations the page causes at most
MaxMarkupFirings == 2

MarkupElements ==
    FewElements
    \cup {Element(<<" ">>, <<" ">>, TRUE),
          Element(<<"9","k">>, <<"d">>, FALSE),
          Element(<<>>, <<"h","/","a","v","a","t","a","r">>, FALSE)}

\* colly runs the callbacks in the order of their registration, each on every
\* element its selector matches: the firings of a page are ordered by callback
MarkupFirings ==
    {s \in SeqsUpTo([cb : Callbacks, e : MarkupElements], MaxMarkupFirings) :
        \A k \in 1..(Len(s) - 1) : s[k].cb <= s[k + 1].cb}

\* the post after each of the first k firings; the callbacks start from a post
\* with empty fields and no images
RECURSIVE postAfter(_, _)
postAfter(firings, k) ==
    IF k = 0 THEN EmptyPost
    ELSE onHTML(firings[k].cb, postAfter(firings, k - 1), firings[k].e)

InitMarkup ==
    /\ lst = [c \in Calls |-> IdleCall]
    /\ post = IdlePost
    /\ crawler = IdleCrawler
    /\ fn \in {[op |-> "onHTML", in |-> s, out |-> <<>>, pc |-> "ready"] :
                  s \in MarkupFirings}

\* c.Visit parses the page and runs the callbacks
ApplyCallbacks ==
    /\ fn.pc = "ready" /\ fn.op = "onHTML"
    /\ fn' = [fn EXCEPT !.out = [k \in 1..Len(fn.in) |-> postAfter(fn.in, k)],
                        !.pc = "done"]
    /\ UNCHANGED <<lst, post, crawler>>

NextMarkup == ApplyCallbacks
SpecMarkup == InitMarkup /\ [][NextMarkup]_vars

MarkupDone == fn.op = "onHTML" /\ fn.pc = "done"

ScalarFields ==
    {"Title", "Author", "PublishedTime", "Score", "CommentCount", "Content"}

\* the post before the k-th firing
Before(k) == IF k = 1 THEN EmptyPost ELSE fn.out[k - 1]

\* the element of the k-th firing offers nothing: its text and its attribute
\* are empty or blank
OffersNothing(k) ==
    TrimSpace(fn.in[k].e.text) = <<>> /\ TrimSpace(fn.in[k].e.attr) = <<>>

\* C24: over the callback firings of a page, a scalar field (title, author,
\* published time, score, comment count, content) that holds a non-empty value
\* is not changed by any later firing, a firing whose element offers only
\* empty or blank values changes no scalar field, a field is only ever set to
\* a non-empty value, and the image sequence changes only by one append.
C24_FirstSuccessWins ==
    MarkupDone =>
        \A k \in 1..Len(fn.out) :
            /\ \A f \in ScalarFields :
                  /\ Before(k)[f] # <<>> => fn.out[k][f] = Before(k)[f]
                  /\ OffersNothing(k) => fn.out[k][f] = Before(k)[f]
                  /\ fn.out[k][f] # Before(k)[f] => fn.out[k][f] # <<>>
            /\ \/ fn.out[k].Images = Before(k).Images
               \/ /\ fn.in[k].cb = CB_img
                  /\ fn.out[k].Images = Append(Before(k).Images, fn.in[k].e.attr)

\* C24 witness: the title callback fired on two headings; the first set the
\* title and the second, with another text, left it alone.
C24_Witness ==
    /\ MarkupDone
    /\ Len(fn.in) = 2
    /\ fn.in[1].cb = CB_h1 /\ fn.in[2].cb = CB_h1
    /\ TrimSpace(fn.in[1].e.text) = <<"t">>
    /\ TrimSpace(fn.in[2].e.text) = <<"1","2">>
    /\ fn.out[1].Title = <<"t">>
    /\ fn.out[2].Title = <<"t">>

----------------------------------------------------------------------------
(* cmd/reddit: the standalone crawler                                      *)

maxPages == 3
maxPosts == 100

s_oldreddit == <<"h","t","t","p","s",":","/","/","o","l","d",".","r","e","d","d","i","t",".","c","o","m">>

\* URLs are told apart by host and page only
AllowedDomain == "old.reddit.com"
PageURL(n) == [host |-> AllowedDomain, page |-> n]
targetURL == PageURL(0)
ForeignURL == [host |-> "x.io", page |-> 0]
NoHref == [host |-> "", page |-> 0]

NoPost == [Title |-> <<>>, Link |-> <<>>, Comments |-> <<>>]

\* a request: fetched ("fetch"), then its page's .thing elements ("things",
\* "append") and next-button links ("links", "inc", "check") are run through
\* the callbacks, in the order of the callbacks' registration
NewRequest(u) ==
    [url |-> u, pc |-> "fetch", things |-> 0, links |-> 0,
     item |-> NoPost, seen |-> <<>>, count |-> 0]

\* the next element of the page to run a callback on, if any
advance(r) ==
    [r EXCEPT !.pc = IF r.things > 0 THEN "things"
                     ELSE IF r.links > 0 THEN "links" ELSE "done"]

\* href[0] == '/' ? "https://old.reddit.com" + href : href
absoluteLink(href) ==
    IF Head(href) = "/" THEN s_oldreddit \o href ELSE href

\* the .thing callback up to its append.  An element is [via, title, href,
\* comments]: which selector finds its title link ("action": a[data-event-
\* action=title], "title": a.title, "any": the first a, "none": no link), the
\* link's text, and the href attributes of the title link and the comments
\* link, each absent ([has |-> FALSE]) or a string.  Indexing an empty href
\* panics.
thingPost(e) ==
    LET titleFound == e.via # "none"
        guarded == e.via = "any"
        linkSet == titleFound /\ e.href.has /\ (guarded => e.href.s # <<>>)
        panics == \/ linkSet /\ e.href.s = <<>>
                  \/ e.comments.has /\ e.comments.s = <<>>
    IN [panics |-> panics,
        post |-> IF panics THEN NoPost
                 ELSE [Title |-> IF titleFound THEN e.title ELSE <<>>,
                       Link |-> IF linkSet THEN absoluteLink(e.href.s) ELSE <<>>,
                       Comments |-> IF e.comments.has
                                    THEN absoluteLink(e.comments.s) ELSE <<>>]]

\* post.Title != "" && post.Title != " "
appendsPost(p) == p.Title # <<>> /\ p.Title # <<" ">>

\* Request.Visit(href) under AllowedDomains("old.reddit.com") and without URL
\* revisits: whether a request is issued
visitAccepted(cr, u) == u.host = AllowedDomain /\ u \notin cr.visited

visit(cr, u) ==
    IF visitAccepted(cr, u)
    THEN [cr EXCEPT !.visited = @ \cup {u}, !.reqs = Append(@, NewRequest(u))]
    ELSE cr

----------------------------------------------------------------------------
(* the crawler as a process: main and the goroutines of its requests       *)

Requests == 1..Len(crawler.reqs)

\* the page visits issued so far, the first one included
Visits == Len(crawler.reqs)

\* main up to c.Visit(targetURL): the first request is issued
CrawlerStart ==
    /\ crawler.pc = "idle"
    /\ crawler' = visit([crawler EXCEPT !.pc = "running"], targetURL)
    /\ UNCHANGED <<lst, post, fn>>

\* the fetch of request i ends: with an error (OnError, no page), or with a
\* page of some .thing elements and some next-button links
FetchReturn(i, thingCounts, linkCounts) ==
    /\ crawler.pc = "running"
    /\ crawler.reqs[i].pc = "fetch"
    /\ \E ok \in BOOLEAN, n \in thingCounts, m \in linkCounts :
          crawler' = [crawler EXCEPT !.reqs[i] =
                         IF ok THEN advance([@ EXCEPT !.things = n, !.links = m])
                         ELSE [@ EXCEPT !.pc = "done"]]
    /\ UNCHANGED <<lst, post, fn>>

\* the .thing callback on the next post element of request i's page, up to
\* its read of posts for the append; an element without a usable title is
\* passed over
ThingFire(i, elements) ==
    /\ crawler.pc = "running"
    /\ crawler.reqs[i].pc = "things"
    /\ \E e \in elements :
          LET t == thingPost(e) IN
          crawler' =
              IF t.panics THEN [crawler EXCEPT !.pc = "crashed"]
              ELSE IF appendsPost(t.post)
              THEN [crawler EXCEPT !.reqs[i] = [@ EXCEPT !.pc = "append",
                                                         !.item = t.post,
                                                         !.seen = crawler.posts]]
              ELSE [crawler EXCEPT !.reqs[i] = advance([@ EXCEPT !.things = @ - 1])]
    /\ UNCHANGED <<lst, post, fn>>

\* posts = append(posts, post), then the check of len(posts) against maxPosts,
\* whose only effect is to return
ThingAppend(i) ==
    /\ crawler.pc = "running"
    /\ crawler.reqs[i].pc = "append"
    /\ crawler' = [crawler EXCEPT
                      !.posts = Append(crawler.reqs[i].seen, crawler.reqs[i].item),
                      !.reqs[i] = advance([@ EXCEPT !.things = @ - 1,
                                                    !.item = NoPost,
                                                    !.seen = <<>>])]
    /\ UNCHANGED <<lst, post, fn>>

\* the next-button callback on the next link of request i's page: the read of
\* pageCount++
LinkFire(i) ==
    /\ crawler.pc = "running"
    /\ crawler.reqs[i].pc = "links"
    /\ crawler' = [crawler EXCEPT !.reqs[i] = [@ EXCEPT !.pc = "inc",
                                                       !.count = crawler.pageCount]]
    /\ UNCHANGED <<lst, post, fn>>

\* the write of pageCount++
LinkIncrement(i) ==
    /\ crawler.pc = "running"
    /\ crawler.reqs[i].pc = "inc"
    /\ crawler' = [crawler EXCEPT !.pageCount = crawler.reqs[i].count + 1,
                                  !.reqs[i] = [@ EXCEPT !.pc = "check", !.count = 0]]
    /\ UNCHANGED <<lst, post, fn>>

\* if pageCount >= maxPages return; otherwise read the link's href and visit
\* it if it is not empty
LinkCheck(i, hrefs) ==
    /\ crawler.pc = "running"
    /\ crawler.reqs[i].pc = "check"
    /\ LET returned == [crawler EXCEPT !.reqs[i] = advance([@ EXCEPT !.links = @ - 1])]
       IN IF crawler.pageCount >= maxPages THEN crawler' = returned
          ELSE \E h \in hrefs :
                  crawler' = IF h = NoHref THEN returned ELSE visit(returned, h)
    /\ UNCHANGED <<lst, post, fn>>

\* c.Wait() returns once every request has finished; main prints the posts
CrawlerWait ==
    /\ crawler.pc = "running"
    /\ \A i \in Requests : crawler.reqs[i].pc = "done"
    /\ crawler' = [crawler EXCEPT !.pc = "done"]
    /\ UNCHANGED <<lst, post, fn>>

Absent == [has |-> FALSE, s |-> <<>>]
Attr(s) == [has |-> TRUE, s |-> s]
Thing(via, title, href, comments) ==
    [via |-> via, title |-> title, href |-> href, comments |-> comments]

PlainThing == Thing("action", <<"a">>, Attr(<<"/","r","/","x">>), Attr(<<"/","c">>))
BlankThing == Thing("title", <<" ">>, Attr(<<"h","t","t","p",":","x">>), Absent)

\* also: no link at all, a first link with an empty href, a title link with
\* an empty href
ThingPool ==
    {PlainThing, BlankThing,
     Thing("none", <<>>, Absent, Absent),
     Thing("any", <<"a">>, Attr(<<>>), Absent),
     Thing("action", <<"a">>, Attr(<<>>), Absent)}

\* how many other pages of the domain the links can name
MaxURLs == 3

\* pages differ only in having been requested or not: a link names no page,
\* a page of another domain, the first page, or the next page of the domain
\* that no link has led to yet
HrefPool ==
    {NoHref, ForeignURL, targetURL}
    \cup {PageURL(n) : n \in {Visits} \cap 1..MaxURLs}

\* the most next-button links on a page, and the most post elements on a page
\* where the links are looked at
MaxLinks == 2
FewThings == 1

NextCrawler ==
    \/ CrawlerStart
    \/ \E i \in Requests : FetchReturn(i, 0..FewThings, 0..MaxLinks)
    \/ \E i \in Requests : ThingFire(i, ThingPool)
    \/ \E i \in Requests : ThingAppend(i)
    \/ \E i \in Requests : LinkFire(i)
    \/ \E i \in Requests : LinkIncrement(i)
    \/ \E i \in Requests : LinkCheck(i, HrefPool)
    \/ CrawlerWait

SpecCrawler == Init /\ [][NextCrawler]_vars

\* the most post elements on a page, and the one next-button link of a page,
\* where the posts are counted
MaxThings == 40
OneNext == 1

NextCrawlPosts ==
    \/ CrawlerStart
    \/ \E i \in Requests : FetchReturn(i, 0..MaxThings, 0..OneNext)
    \/ \E i \in Requests : ThingFire(i, {PlainThing, BlankThing})
    \/ \E i \in Requests : ThingAppend(i)
    \/ \E i \in Requests : LinkFire(i)
    \/ \E i \in Requests : LinkIncrement(i)
    \/ \E i \in Requests : LinkCheck(i, HrefPool)
    \/ CrawlerWait

SpecCrawlPosts == Init /\ [][NextCrawlPosts]_vars

\* C25: in every reachable state the crawler's posts list holds at most
\* maxPosts (100) posts, whatever number of post elements the visited pages
\* contain.
C25_Original == Len(crawler.posts) <= maxPosts

\* C25 witness: the .thing callback appended a post to a list that already
\* held maxPosts posts.
C25_Witness ==
    /\ crawler.pc = "running"
    /\ Len(crawler.posts) = maxPosts + 1
    /\ \A k \in 1..Len(crawler.posts) : crawler.posts[k].Title = <<"a">>

----------------------------------------------------------------------------
\* C26: counting the initial visit, the crawler issues at most maxPages (3)
\* page visits, for any pages and any number of next-button links per page,
\* under any interleaving of the callbacks of its asynchronous requests (and
\* it then terminates: see CrawlerTerminates).
C26_Original == Visits <= maxPages

\* C26 witness: a fourth page visit was issued while pageCount stood at 2: two
\* goroutines had read the same pageCount before either wrote it back.
C26_Witness ==
    /\ crawler.pc = "running"
    /\ Visits = maxPages + 1
    /\ crawler.pageCount < maxPages

CrawlerTypeOK == crawler.pc \in {"idle", "running", "done", "crashed"}

\* the scheduler does not stop every goroutine that can take a step
FairCrawler == SpecCrawler /\ WF_vars(NextCrawler)

\* the crawler ends: c.Wait() returns, or a callback panics
CrawlerTerminates == <>(crawler.pc \in {"done", "crashed"})

====
